---- MODULE Spec2Model ----
(***************************************************************************)
(* NTRU reference implementation (src/index.js): polynomial arithmetic     *)
(* over Z/mZ, inversion modulo (m, x^N - 1), the key state of one NTRU     *)
(* instance and the encrypt / decrypt transforms.                          *)
(*                                                                         *)
(* A polynomial is a sequence of integers; the source's index k is the     *)
(* sequence's index k + 1.  A call that can throw is modelled by a record  *)
(* whose field err holds the thrown message ("" when the call returns).    *)
(***************************************************************************)
EXTENDS Integers, Sequences, FiniteSets, TLC

VARIABLES
  this,   \* the NTRU instance: N, p, q, df, dg, dr, I, f, fp, fq, g, h
  pc,     \* "idle", or "generatePrivateKeyF" while its search loop runs
  loop,   \* generatePrivateKeyF's locals: i, retval
  call,   \* the last finished method call: op, err
  args,   \* arguments of the last library-function call
  out,    \* result of the last library-function call
  enc,    \* argument and result of the last encryptBits call
  dec,    \* argument and result of the last decryptBits call
  enc2,   \* argument and result of a second encryptBits call
  other   \* an instance constructed earlier and set aside, or Null

vars == <<this, pc, loop, call, args, out, enc, dec, enc2, other>>

(***************************************************************************)
(* Bounds of the model.                                                    *)
(***************************************************************************)
\* Ring rank N of the modelled instances.
RingN == 3
\* Largest ring rank of the inversion specification.
MaxInvN == 4
\* Longest first operand (dividend) of the library-function specification.
MaxLen == 3
\* Longest second operand (divisor) of the library-function specification.
MaxDivisorLen == 2

(***************************************************************************)
(* JavaScript arithmetic.                                                  *)
(***************************************************************************)
\* JavaScript's % truncates toward zero: the result has the dividend's sign.
JsRem(x, m) == IF x >= 0 THEN x % m ELSE -((-x) % m)

Max(x, y) == IF x >= y THEN x ELSE y

RECURSIVE SumSeq(_)
SumSeq(s) == IF Len(s) = 0 THEN 0 ELSE s[1] + SumSeq(SubSeq(s, 2, Len(s)))

\* The null of an unset instance field.  The instance fields that can hold
\* it store arrays of length >= 1 otherwise.
Null == <<>>

(***************************************************************************)
(* Polynomial helpers.                                                     *)
(***************************************************************************)
degree(poly) ==
  LET nz == {k \in 0..(Len(poly) - 1) : poly[k + 1] # 0}
  IN  IF nz = {} THEN -1 ELSE CHOOSE k \in nz : \A j \in nz : j <= k

\* trimPolynomial without its slice.
trimPolynomialNoSlice(poly) == IF degree(poly) >= 0 THEN poly ELSE <<0>>

trimPolynomial(poly) ==
  LET d == degree(poly)
  IN  IF d >= 0 THEN SubSeq(poly, 1, d + 1) ELSE <<0>>

\* modInverse returns null when no x in 1..m-1 inverts a; 0 stands for null.
NoInverse == 0

\* modInverse without its first statement, a = ((a % p) + p) % p.
modInverseUnnormalised(a, m) ==
  LET xs == {x \in 1..(m - 1) : JsRem(a * x, m) = 1}
  IN  IF xs = {} THEN NoInverse ELSE CHOOSE x \in xs : \A y \in xs : x <= y

modInverse(a, m) ==
  LET an == (JsRem(a, m) + m) % m
      xs == {x \in 1..(m - 1) : (an * x) % m = 1}
  IN  IF xs = {} THEN NoInverse ELSE CHOOSE x \in xs : \A y \in xs : x <= y

CoeffOrZero(poly, k) == IF k < Len(poly) THEN poly[k + 1] ELSE 0

\* addPolynomials returning result as the loop left it, not trimmed.
addPolynomialsUntrimmed(a, b, m) ==
  [k \in 1..Max(Len(a), Len(b)) |->
    (JsRem(CoeffOrZero(a, k - 1) + CoeffOrZero(b, k - 1), m) + m) % m]

addPolynomials(a, b, m) ==
  trimPolynomial([k \in 1..Max(Len(a), Len(b)) |->
    (JsRem(CoeffOrZero(a, k - 1) + CoeffOrZero(b, k - 1), m) + m) % m])

subtractPolynomials(a, b, m) ==
  trimPolynomial([k \in 1..Max(Len(a), Len(b)) |->
    (JsRem(CoeffOrZero(a, k - 1) - CoeffOrZero(b, k - 1), m) + m) % m])

\* Math.round(A[k].re) after the forward transforms, the pointwise product
\* and the inverse transform: the k-th coefficient of the convolution.  The
\* transform's floating-point error stays below 1/2 for the magnitudes of
\* the model, so the rounding returns the integer.
fftCoeff(a, b, k) ==
  SumSeq([j \in 1..Len(a) |->
    IF k - (j - 1) >= 0 /\ k - (j - 1) < Len(b)
    THEN a[j] * b[k - (j - 1) + 1] ELSE 0])

multiplyPolynomials(a, b, m) ==
  IF Len(a) = 0 \/ Len(b) = 0 THEN <<0>>
  ELSE trimPolynomial([k \in 1..(Len(a) + Len(b) - 1) |->
         (JsRem(fftCoeff(a, b, k - 1), m) + m) % m])

multiplyPolynomialsByScalar(poly, scalar, m) ==
  [k \in 1..Len(poly) |-> JsRem(poly[k] * scalar, m)]

\* One pass of the long-division loop's body: the dividend after
\* coeff * x^degDiff * divisor has been subtracted from it.
divideSubtract(dividend, divisor, degDivisor, degDiff, coeff, m) ==
  [k \in 1..Len(dividend) |->
    IF k - 1 >= degDiff /\ k - 1 <= degDiff + degDivisor
    THEN LET v == JsRem(dividend[k] - coeff * divisor[k - degDiff], m)
         IN  IF v < 0 THEN v + m ELSE v
    ELSE dividend[k]]

\* dividePolynomials' loop with the quotient term stored before it is
\* multiplied by the inverse of the divisor's leading coefficient.
RECURSIVE divideLoopRawQuotient(_, _, _, _)
divideLoopRawQuotient(dividend, quotient, divisor, m) ==
  LET degDivisor  == degree(divisor)
      degDividend == degree(dividend)
  IN  IF degDividend < degDivisor
      THEN [err |-> "", quotient |-> trimPolynomial(quotient),
            remainder |-> trimPolynomial(dividend)]
      ELSE LET leadDividend   == dividend[degDividend + 1]
               invLeadDivisor == modInverse(divisor[degDivisor + 1], m)
           IN  IF invLeadDivisor = NoInverse
               THEN [err |-> "No inverse exists for division.",
                     quotient |-> <<>>, remainder |-> <<>>]
               ELSE LET coeff   == JsRem(leadDividend * invLeadDivisor, m)
                        degDiff == degDividend - degDivisor
                    IN  divideLoopRawQuotient(
                          divideSubtract(dividend, divisor, degDivisor,
                                         degDiff, coeff, m),
                          [quotient EXCEPT ![degDiff + 1] = leadDividend],
                          divisor, m)

RECURSIVE divideLoop(_, _, _, _)
divideLoop(dividend, quotient, divisor, m) ==
  LET degDivisor  == degree(divisor)
      degDividend == degree(dividend)
  IN  IF degDividend < degDivisor
      THEN [err |-> "", quotient |-> trimPolynomial(quotient),
            remainder |-> trimPolynomial(dividend)]
      ELSE LET leadDividend   == dividend[degDividend + 1]
               leadDivisor    == divisor[degDivisor + 1]
               invLeadDivisor == modInverse(leadDivisor, m)
           IN  IF invLeadDivisor = NoInverse
               THEN [err |-> "No inverse exists for division.",
                     quotient |-> <<>>, remainder |-> <<>>]
               ELSE LET coeff   == JsRem(leadDividend * invLeadDivisor, m)
                        degDiff == degDividend - degDivisor
                    IN  divideLoop(
                          divideSubtract(dividend, divisor, degDivisor,
                                         degDiff, coeff, m),
                          [quotient EXCEPT ![degDiff + 1] = coeff],
                          divisor, m)

dividePolynomials(a, b, m) ==
  IF degree(b) = -1
  THEN [err |-> "Cannot divide by zero polynomial.",
        quotient |-> <<>>, remainder |-> <<>>]
  ELSE divideLoop(a, [k \in 1..Max(0, degree(a) - degree(b) + 1) |-> 0], b, m)

\* The Euclidean loop, while (degree(r1) >= 0), and the rest of its body
\* once d, the division of r0 by r1, is known.
RECURSIVE eeaLoop(_, _, _, _, _)
RECURSIVE eeaLoopBody(_, _, _, _, _)

eeaLoop(r0, r1, s0, s1, m) ==
  IF degree(r1) < 0 THEN [err |-> "", r0 |-> r0, s0 |-> s0]
  ELSE eeaLoopBody(r1, s0, s1, dividePolynomials(r0, r1, m), m)

eeaLoopBody(r1, s0, s1, d, m) ==
  IF d.err # "" THEN [err |-> d.err, r0 |-> <<>>, s0 |-> <<>>]
  ELSE eeaLoop(r1, d.remainder, s1,
         subtractPolynomials(s0, multiplyPolynomials(d.quotient, s1, m), m), m)

\* The check that follows the loop: "gcd must be 1".
gcdRejected(r0) == Len(r0) # 1 /\ (Len(r0) = 0 \/ r0[1] # 1)

\* The end of extendedEuclideanAlgorithm: the check and the return.
eeaReturn(r0, s0) ==
  IF gcdRejected(r0)
  THEN [err |-> "invalid_gcd", gcd |-> <<>>, inverse |-> <<>>]
  ELSE [err |-> "", gcd |-> r0, inverse |-> s0]

\* "Normalize the GCD to be monic": r0 and s0 are scaled when the leading
\* coefficient of r0 has an inverse other than 1.
eeaNormalize(r0, s0, invLeadCoeff, m) ==
  IF invLeadCoeff # NoInverse /\ invLeadCoeff # 1
  THEN eeaReturn(multiplyPolynomialsByScalar(r0, invLeadCoeff, m),
                 multiplyPolynomialsByScalar(s0, invLeadCoeff, m))
  ELSE eeaReturn(r0, s0)

\* r0[degree(r0)] is undefined for r0 = [0]; modInverse then returns null.
eeaLeadInverse(r0, d, m) == IF d < 0 THEN NoInverse ELSE modInverse(r0[d + 1], m)

\* What follows the loop, l being what the loop left.
eeaAfterLoop(l, m) ==
  IF l.err # "" THEN [err |-> l.err, gcd |-> <<>>, inverse |-> <<>>]
  ELSE eeaNormalize(l.r0, l.s0, eeaLeadInverse(l.r0, degree(l.r0), m), m)

extendedEuclideanAlgorithm(a, b, m) ==
  eeaAfterLoop(eeaLoop(a, b, <<1>>, <<0>>, m), m)

\* Math.round(Math.log2(m)) === Math.log2(m)
IsPowerOfTwo(m) == \E k \in 0..m : 2^k = m

Log2(m) == CHOOSE k \in 0..m : 2^k = m

\* The iterative refinement of polyInv, the loop
\* for (a = 1; a < exponent; a++), and the end of its body once d, the
\* division of the updated inverse by polyI, is known.
RECURSIVE refineLoop(_, _, _, _, _, _)
RECURSIVE refineLoopBody(_, _, _, _, _, _)

refineLoop(inverse, polyIn, polyI, polyMod, a, exponent) ==
  IF a >= exponent THEN [err |-> "", inverse |-> inverse]
  ELSE LET twiceInverse == multiplyPolynomialsByScalar(inverse, 2, polyMod)
           polyTimesSquareInverse ==
             multiplyPolynomials(polyIn,
               multiplyPolynomials(inverse, inverse, polyMod), polyMod)
           updatedInverse ==
             subtractPolynomials(twiceInverse, polyTimesSquareInverse, polyMod)
       IN  refineLoopBody(dividePolynomials(updatedInverse, polyI, polyMod),
                          polyIn, polyI, polyMod, a, exponent)

refineLoopBody(d, polyIn, polyI, polyMod, a, exponent) ==
  IF d.err # "" THEN [err |-> d.err, inverse |-> <<>>]
  ELSE refineLoop(trimPolynomial(d.remainder), polyIn, polyI,
                  polyMod, a + 1, exponent)

\* polyInv's power-of-two branch after the inversion modulo 2, e being what
\* extendedEuclideanAlgorithm returned or threw and a the loop's first pass.
polyInvRefine(e, polyIn, polyI, polyMod, a) ==
  IF e.err # "" THEN [err |-> e.err, inverse |-> <<>>]
  ELSE refineLoop(e.inverse, polyIn, polyI, polyMod, a, Log2(polyMod))

\* polyInv's other branch: the inverse of extendedEuclideanAlgorithm.
polyInvDirect(e) == [err |-> e.err, inverse |-> e.inverse]

\* polyInv with the refinement loop started one pass late.
polyInvLateStart(polyIn, polyI, polyMod) ==
  IF IsPowerOfTwo(polyMod)
  THEN polyInvRefine(extendedEuclideanAlgorithm(polyIn, polyI, 2),
                     polyIn, polyI, polyMod, 2)
  ELSE polyInvDirect(extendedEuclideanAlgorithm(polyIn, polyI, polyMod))

polyInv(polyIn, polyI, polyMod) ==
  IF IsPowerOfTwo(polyMod)
  THEN polyInvRefine(extendedEuclideanAlgorithm(polyIn, polyI, 2),
                     polyIn, polyI, polyMod, 1)
  ELSE polyInvDirect(extendedEuclideanAlgorithm(polyIn, polyI, polyMod))

\* Every array generateCustomArray can return: the shuffle reaches every
\* arrangement of numOnes 1s, numNegOnes -1s and zeros.
Count(s, v) == Cardinality({k \in 1..Len(s) : s[k] = v})

generateCustomArray(length, numOnes, numNegOnes) ==
  IF numOnes + numNegOnes > length THEN {}
  ELSE {s \in [1..length -> {-1, 0, 1}] :
          Count(s, 1) = numOnes /\ Count(s, -1) = numNegOnes}

\* expandArray that pads with 1 whatever fill is.
expandArrayFillOne(arr, len, fill) == arr \o [k \in 1..(len - Len(arr)) |-> 1]

expandArray(arr, len, fill) == arr \o [k \in 1..(len - Len(arr)) |-> fill]

(***************************************************************************)
(* The NTRU instance.                                                      *)
(***************************************************************************)
Defaults ==
  [N |-> 167, p |-> 3, q |-> 128, df |-> 61, dg |-> 20, dr |-> 18,
   f |-> Null, fp |-> Null, fq |-> Null, g |-> Null, h |-> Null]

\* this.I: x^N - 1 written as 1 - x^N.
ideal(n) == [k \in 1..(n + 1) |-> IF k = 1 THEN 1 ELSE IF k = n + 1 THEN -1 ELSE 0]

constructor(options) ==
  LET merged == [k \in DOMAIN Defaults |->
                   IF k \in DOMAIN options THEN options[k] ELSE Defaults[k]]
  IN  merged @@ [I |-> ideal(merged.N)]

\* x => x === -1 ? m - 1 : x, mapped over a trinary array
mapNegOne(arr, m) == [k \in 1..Len(arr) |-> IF arr[k] = -1 THEN m - 1 ELSE arr[k]]

\* The test loadPrivateKeyF and verifyKeysInputs apply to the remainder of
\* inverse * f divided by I: remainder.length !== 1 && remainder[0] !== 1.
remainderRejected(remainder) ==
  Len(remainder) # 1 /\ (Len(remainder) = 0 \/ remainder[1] # 1)

\* A method's outcome: the message thrown ("" when it returns) and the
\* instance as the call leaves it.
Outcome(err, self) == [err |-> err, this |-> self]

\* The end of loadPrivateKeyF, "check if fp,fq match f like
\* verifyKeysInputs": fqDiv and fpDiv are the divisions of fq*f and fp*f by I;
\* fqDiv is computed and tested before fpDiv is computed.
loadPrivateKeyF_check(self, fqDiv, fpDiv) ==
  IF fqDiv.err # "" THEN Outcome(fqDiv.err, self)
  ELSE IF remainderRejected(fqDiv.remainder) THEN Outcome("invalid fq", self)
  ELSE IF fpDiv.err # "" THEN Outcome(fpDiv.err, self)
  ELSE IF remainderRejected(fpDiv.remainder) THEN Outcome("invalid fp", self)
  ELSE Outcome("", self)

\* loadPrivateKeyF once f, fq and fp are stored in self.
loadPrivateKeyF_stored(self) ==
  loadPrivateKeyF_check(self,
    dividePolynomials(
      multiplyPolynomials(self.fq, mapNegOne(self.f, self.q), self.q),
      self.I, self.q),
    dividePolynomials(
      multiplyPolynomials(self.fp, mapNegOne(self.f, self.p), self.p),
      self.I, self.p))

\* The three assignments of loadPrivateKeyF, self holding the new f, iq and
\* ip being what the two polyInv calls returned or threw: a throw leaves
\* the assignments before it in place.
loadPrivateKeyF_assign(self, iq, ip) ==
  IF iq.err # "" THEN Outcome(iq.err, self)
  ELSE IF ip.err # "" THEN Outcome(ip.err, [self EXCEPT !.fq = iq.inverse])
  ELSE loadPrivateKeyF_stored([self EXCEPT !.fq = iq.inverse, !.fp = ip.inverse])

loadPrivateKeyF(self, fArr) ==
  loadPrivateKeyF_assign([self EXCEPT !.f = fArr],
                         polyInv(fArr, self.I, self.q),
                         polyInv(fArr, self.I, self.p))

\* The last statement of generatePublicKeyH, d being the division by I.
generatePublicKeyH_store(self, d) ==
  IF d.err # "" THEN Outcome(d.err, self)
  ELSE Outcome("", [self EXCEPT !.h = trimPolynomial(d.remainder)])

generatePublicKeyH(self) ==
  IF self.f = Null THEN Outcome("missing private key F", self)
  ELSE IF self.g = Null THEN Outcome("missing private key G", self)
  ELSE IF self.fq = Null THEN Outcome("TypeError", self)
  ELSE generatePublicKeyH_store(self,
         dividePolynomials(
           multiplyPolynomials(
             multiplyPolynomialsByScalar(self.fq, self.p, self.q),
             self.g, self.q),
           self.I, self.q))

\* generateNewPublicKeyGH with gArr the array generateCustomArray returned.
generateNewPublicKeyGH(self, gArr) ==
  generatePublicKeyH([self EXCEPT !.g = gArr])

maxTries == 100

\* A loop condition that ignores retval and the stored inverses.
searchOnAlways(self, retval) == TRUE

\* generatePrivateKeyF's loop condition without its i++ < maxTries.
searchOn(self, retval) == ~retval \/ ~(self.fq # Null /\ self.fp # Null)

\* Math.ceil(Math.log2(x)) for an integer x >= 1
CeilLog2(x) == CHOOSE k \in 0..x : 2^k >= x /\ (k = 0 \/ 2^(k - 1) < x)

calculateNq(self) == CeilLog2(self.q * self.q * self.N)

\* calculateNp computed from q.
calculateNpFromQ(self) == CeilLog2(self.q * self.q * self.N)

calculateNp(self) == CeilLog2(self.p * self.p * self.N)

Thrown(err) == [err |-> err, value |-> <<>>, inputs |-> <<>>, params |-> <<>>]

\* encryptBits_return with each padded array cut to the length asked for
\* instead of expandArray's RangeError.
encryptBits_returnCut(self, m, r, d) ==
  IF d.err # "" THEN Thrown(d.err)
  ELSE [err |-> "",
        value |-> trimPolynomial(d.remainder),
        inputs |-> [r |-> r,
                    m |-> SubSeq(expandArray(m, self.N, 0), 1, self.N),
                    h |-> SubSeq(expandArray(self.h, self.N, 0), 1, self.N),
                    quotientE |-> SubSeq(expandArray(d.quotient, self.N + 1, 0), 1, self.N + 1),
                    remainderE |-> SubSeq(expandArray(d.remainder, self.N + 1, 0), 1, self.N + 1)],
        params |-> <<self.q, calculateNq(self), self.N>>]

\* The return statement of encryptBits, r being the mapped randomness and d
\* the division of r*h + m by I.  expandArray throws a RangeError when the
\* array is longer than the length asked for.
encryptBits_return(self, m, r, d) ==
  IF d.err # "" THEN Thrown(d.err)
  ELSE IF Len(m) > self.N \/ Len(self.h) > self.N
            \/ Len(d.quotient) > self.N + 1 \/ Len(d.remainder) > self.N + 1
  THEN Thrown("RangeError")
  ELSE [err |-> "",
        value |-> trimPolynomial(d.remainder),
        inputs |-> [r |-> r,
                    m |-> expandArray(m, self.N, 0),
                    h |-> expandArray(self.h, self.N, 0),
                    quotientE |-> expandArray(
                      [k \in 1..Len(d.quotient) |-> JsRem(d.quotient[k], self.q)],
                      self.N + 1, 0),
                    remainderE |-> expandArray(d.remainder, self.N + 1, 0)],
        params |-> <<self.q, calculateNq(self), self.N>>]

\* encryptBits from its second statement on, r being the mapped randomness.
encryptBits_with(self, m, r) ==
  encryptBits_return(self, m, r,
    dividePolynomials(
      addPolynomials(m, multiplyPolynomials(r, self.h, self.q), self.q),
      self.I, self.q))

\* encryptBits with rArr the array generateCustomArray returned.  Reading
\* the length of a null h throws a TypeError.
encryptBits(self, m, rArr) ==
  IF self.h = Null THEN Thrown("TypeError")
  ELSE encryptBits_with(self, m, mapNegOne(rArr, self.p))

\* The remap without its off-by-one: x => x % p.
signRemapPlain(x, q, p) == JsRem(x, p)

\* x => x > q/2 ? (x+1) % p : x % p
signRemap(x, q, p) == IF 2 * x > q THEN JsRem(x + 1, p) ELSE JsRem(x, p)

\* The return statement of decryptBits, f being the mapped key, aDiv and
\* cDiv the two divisions by I.
decryptBits_return(self, e, f, aDiv, cDiv) ==
  IF cDiv.err # "" THEN Thrown(cDiv.err)
  ELSE IF Len(f) > self.N \/ Len(self.fp) > self.N \/ Len(e) > self.N
            \/ Len(aDiv.quotient) > self.N + 1 \/ Len(aDiv.remainder) > self.N + 1
            \/ Len(cDiv.quotient) > self.N + 1 \/ Len(cDiv.remainder) > self.N + 1
  THEN Thrown("RangeError")
  ELSE [err |-> "",
        value |-> trimPolynomial(cDiv.remainder),
        inputs |-> [f |-> expandArray(f, self.N, 0),
                    fp |-> expandArray(self.fp, self.N, 0),
                    e |-> expandArray(e, self.N, 0),
                    quotient1 |-> expandArray(aDiv.quotient, self.N + 1, 0),
                    remainder1 |-> expandArray(aDiv.remainder, self.N + 1, 0),
                    quotient2 |-> expandArray(cDiv.quotient, self.N + 1, 0),
                    remainder2 |-> expandArray(cDiv.remainder, self.N + 1, 0)],
        params |-> <<self.q, calculateNq(self), self.p, calculateNp(self), self.N>>]

\* decryptBits after its first division, aDiv: the remap of the remainder,
\* the product with fp and the second division.
decryptBits_second(self, e, f, aDiv) ==
  IF aDiv.err # "" THEN Thrown(aDiv.err)
  ELSE decryptBits_return(self, e, f, aDiv,
         dividePolynomials(
           multiplyPolynomials(self.fp,
             [k \in 1..Len(aDiv.remainder) |->
                signRemap(aDiv.remainder[k], self.q, self.p)],
             self.p),
           self.I, self.p))

\* decryptBits with its first product and division taken modulo p.
decryptBits_withModP(self, e, f) ==
  decryptBits_second(self, e, f,
    dividePolynomials(multiplyPolynomials(f, e, self.p), self.I, self.p))

\* decryptBits from its second statement on, f being the mapped key.
decryptBits_with(self, e, f) ==
  decryptBits_second(self, e, f,
    dividePolynomials(multiplyPolynomials(f, e, self.q), self.I, self.q))

\* decryptBits refusing to run without a public key.
decryptBitsNeedsH(self, e) ==
  IF self.f = Null \/ self.fp = Null THEN Thrown("TypeError")
  ELSE IF self.h = Null THEN Thrown("missing public key H")
  ELSE decryptBits_with(self, e, mapNegOne(self.f, self.q))

\* Mapping a null f, or reading the length of a null fp, throws a TypeError.
decryptBits(self, e) ==
  IF self.f = Null \/ self.fp = Null THEN Thrown("TypeError")
  ELSE decryptBits_with(self, e, mapNegOne(self.f, self.q))

(***************************************************************************)
(* Text helpers: a string is the sequence of its character codes.          *)
(***************************************************************************)
\* charCode.toString(2).padStart(8, '0'), digit by digit, for each character
\* in turn; a character code below 256 has at most 8 binary digits.
stringToBits(str) ==
  [k \in 1..(8 * Len(str)) |->
     (str[((k - 1) \div 8) + 1] \div 2^(7 - ((k - 1) % 8))) % 2]

\* Zeros are pushed until the length is Math.ceil(length / multiple) * multiple.
expandArrayToMultiple(array, multiple) ==
  array \o [k \in 1..((((Len(array) + multiple - 1) \div multiple) * multiple) - Len(array)) |-> 0]

\* The number of leading entries of byte that are binary digits.
binaryDigits(byte) ==
  IF \A k \in 1..Len(byte) : byte[k] \in {0, 1} THEN Len(byte)
  ELSE (CHOOSE k \in 1..Len(byte) :
          byte[k] \notin {0, 1} /\ \A j \in 1..(k - 1) : byte[j] \in {0, 1}) - 1

\* parseInt(byte.join(''), 2) reads the leading binary digits; with none it
\* is NaN, which String.fromCharCode turns into the character of code 0.
parseIntBinary(byte, n) ==
  SumSeq([j \in 1..n |-> byte[j] * 2^(n - j)])

bitsToString(bitsArray) ==
  [i \in 1..((Len(bitsArray) + 7) \div 8) |->
     parseIntBinary(
       SubSeq(bitsArray, 8 * (i - 1) + 1, IF 8 * i < Len(bitsArray) THEN 8 * i ELSE Len(bitsArray)),
       binaryDigits(
         SubSeq(bitsArray, 8 * (i - 1) + 1, IF 8 * i < Len(bitsArray) THEN 8 * i ELSE Len(bitsArray))))]

\* verifyKeysInputs throwing err: nothing is returned.
VerifyThrown(err) == [err |-> err, fq |-> <<>>, fp |-> <<>>, h |-> <<>>]

\* One of the three bundles verifyKeysInputs returns: the factors a and b
\* padded to N, the division d of their product by I padded to N + 1.
verifyBundle(self, params, a, b, d) ==
  [params |-> params,
   inputs |-> [f |-> expandArray(a, self.N, 0),
               fq |-> expandArray(b, self.N, 0),
               quotientI |-> expandArray(d.quotient, self.N + 1, 0),
               remainderI |-> expandArray(d.remainder, self.N + 1, 0)]]

\* this.h.reduce((out, cur, index) => out || hDiv.remainder[index] !== cur,
\* false): an index beyond the remainder reads undefined.
hRejected(h, remainder) ==
  \E k \in 1..Len(h) : k > Len(remainder) \/ remainder[k] # h[k]

\* An array handed to expandArray is longer than the length asked for.
verifyTooLong(self, d) ==
  Len(d.quotient) > self.N + 1 \/ Len(d.remainder) > self.N + 1

\* The return statement of verifyKeysInputs.
verifyKeysInputs_return(self, fqDiv, fpDiv, hDiv) ==
  IF Len(self.f) > self.N \/ Len(self.fq) > self.N \/ Len(self.fp) > self.N
       \/ Len(self.g) > self.N
       \/ verifyTooLong(self, fqDiv) \/ verifyTooLong(self, fpDiv)
       \/ verifyTooLong(self, hDiv)
  THEN VerifyThrown("RangeError")
  ELSE [err |-> "",
        fq |-> verifyBundle(self, <<self.q, calculateNq(self), self.N>>,
                            mapNegOne(self.f, self.q), self.fq, fqDiv),
        fp |-> verifyBundle(self, <<self.p, calculateNp(self), self.N>>,
                            mapNegOne(self.f, self.p), self.fp, fpDiv),
        h |-> verifyBundle(self, <<self.q, calculateNq(self), self.N>>,
                           mapNegOne(self.g, self.q),
                           [k \in 1..Len(self.fq) |-> self.fq[k] * self.p], hDiv)]

\* The check of h, hDiv being the division of fqp*g by I.
verifyKeysInputs_h(self, fqDiv, fpDiv, hDiv) ==
  IF hDiv.err # "" THEN VerifyThrown(hDiv.err)
  ELSE IF hRejected(self.h, hDiv.remainder) THEN VerifyThrown("invalid h")
  ELSE verifyKeysInputs_return(self, fqDiv, fpDiv, hDiv)

\* The check of fp, fpDiv being the division of fp*fmodp by I.
verifyKeysInputs_fp(self, fqDiv, fpDiv) ==
  IF fpDiv.err # "" THEN VerifyThrown(fpDiv.err)
  ELSE IF remainderRejected(fpDiv.remainder) THEN VerifyThrown("invalid fp")
  ELSE verifyKeysInputs_h(self, fqDiv, fpDiv,
         dividePolynomials(
           multiplyPolynomials([k \in 1..Len(self.fq) |-> self.fq[k] * self.p],
                               mapNegOne(self.g, self.q), self.q),
           self.I, self.q))

\* The check of fq, fqDiv being the division of fq*fmodq by I.
verifyKeysInputs_fq(self, fqDiv) ==
  IF fqDiv.err # "" THEN VerifyThrown(fqDiv.err)
  ELSE IF remainderRejected(fqDiv.remainder) THEN VerifyThrown("invalid fq")
  ELSE verifyKeysInputs_fp(self, fqDiv,
         dividePolynomials(
           multiplyPolynomials(self.fp, mapNegOne(self.f, self.p), self.p),
           self.I, self.p))

verifyKeysInputs(self) ==
  IF self.f = Null THEN VerifyThrown("missing private key F")
  ELSE IF self.fq = Null THEN VerifyThrown("missing private key Fq")
  ELSE IF self.fp = Null THEN VerifyThrown("missing private key Fp")
  ELSE IF self.g = Null THEN VerifyThrown("missing private key G")
  ELSE IF self.h = Null THEN VerifyThrown("missing public key H")
  ELSE verifyKeysInputs_fq(self,
         dividePolynomials(
           multiplyPolynomials(self.fq, mapNegOne(self.f, self.q), self.q),
           self.I, self.q))

\* encryptStr(inputPlain) returns encryptBits(stringToBits(inputPlain)).value
encryptStr(self, inputPlain, rArr) ==
  [encryptBits(self, stringToBits(inputPlain), rArr) EXCEPT !.inputs = <<>>, !.params = <<>>]

(***************************************************************************)
(* Values of the variables a specification does not use.                   *)
(***************************************************************************)
NoCall == [op |-> "none", err |-> ""]
NoLoop == [i |-> 0, retval |-> FALSE]
NoArgs == [a |-> <<>>, b |-> <<>>, m |-> 2]
NoOut  == [op |-> "none", err |-> "", value |-> <<>>,
           quotient |-> <<>>, remainder |-> <<>>]
NoEnc  == [m |-> <<>>, rArr |-> <<>>, err |-> "none", value |-> <<>>,
           inputs |-> <<>>, params |-> <<>>]
NoDec  == [e |-> <<>>, err |-> "none", value |-> <<>>,
           inputs |-> <<>>, params |-> <<>>]

(***************************************************************************)
(* Library functions called on their own: addPolynomials,                  *)
(* subtractPolynomials, multiplyPolynomials and dividePolynomials.         *)
(***************************************************************************)
Coeffs == -1..2
Moduli == {2, 3, 4}

PolysUpTo(n) == UNION {[1..l -> Coeffs] : l \in 0..n}

Returned(op, value) ==
  [op |-> op, err |-> "", value |-> value, quotient |-> <<>>, remainder |-> <<>>]

ArithInputs ==
  {[a |-> a, b |-> b, m |-> m] :
     a \in PolysUpTo(MaxLen), b \in PolysUpTo(MaxDivisorLen), m \in Moduli}

\* The inputs of one call are drawn here; each action is that call.
InitArith ==
  /\ this = constructor([N |-> RingN])
  /\ pc = "idle" /\ loop = NoLoop /\ call = NoCall
  /\ args \in ArithInputs
  /\ out = NoOut /\ enc = NoEnc /\ dec = NoDec
  /\ enc2 = NoEnc /\ other = Null

CallAdd ==
  /\ out.op = "none"
  /\ out' = Returned("addPolynomials", addPolynomials(args.a, args.b, args.m))
  /\ UNCHANGED <<this, pc, loop, call, args, enc, dec, enc2, other>>

CallSubtract ==
  /\ out.op = "none"
  /\ out' = Returned("subtractPolynomials",
                     subtractPolynomials(args.a, args.b, args.m))
  /\ UNCHANGED <<this, pc, loop, call, args, enc, dec, enc2, other>>

CallMultiply ==
  /\ out.op = "none"
  /\ out' = Returned("multiplyPolynomials",
                     multiplyPolynomials(args.a, args.b, args.m))
  /\ UNCHANGED <<this, pc, loop, call, args, enc, dec, enc2, other>>

ReturnedDivision(d) ==
  [op |-> "dividePolynomials", err |-> d.err, value |-> <<>>,
   quotient |-> d.quotient, remainder |-> d.remainder]

CallDivide ==
  /\ out.op = "none"
  /\ out' = ReturnedDivision(dividePolynomials(args.a, args.b, args.m))
  /\ UNCHANGED <<this, pc, loop, call, args, enc, dec, enc2, other>>

NextArith == CallAdd \/ CallSubtract \/ CallMultiply \/ CallDivide

SpecArith == InitArith /\ [][NextArith]_vars

(***************************************************************************)
(* Ground truth the claims about arithmetic are stated with.               *)
(***************************************************************************)
\* Coefficient k of the exact integer product of two polynomials.
ProductCoeff(a, b, k) ==
  SumSeq([j \in 1..Len(a) |->
    IF k - (j - 1) >= 0 /\ k - (j - 1) < Len(b)
    THEN a[j] * b[k - (j - 1) + 1] ELSE 0])

\* a = quotient * b + remainder (mod m), coefficient by coefficient.
DivisionIdentity(a, b, quotient, remainder, m) ==
  \A k \in 0..(Len(a) + Len(b) + Len(quotient) + Len(remainder)) :
    (CoeffOrZero(a, k) - ProductCoeff(quotient, b, k)
       - CoeffOrZero(remainder, k)) % m = 0

\* poly without its trailing zeros, the zero polynomial being [0].
RECURSIVE TrimZeros(_)
TrimZeros(poly) ==
  IF Len(poly) = 0 THEN <<0>>
  ELSE IF poly[Len(poly)] # 0 THEN poly
  ELSE TrimZeros(SubSeq(poly, 1, Len(poly) - 1))

\* No trailing zeros, the zero polynomial being [0].
Canonical(poly) == Len(poly) >= 1 /\ (poly[Len(poly)] # 0 \/ poly = <<0>>)

InRange(poly, m) == \A k \in 1..Len(poly) : poly[k] \in 0..(m - 1)

\* C6: whenever dividePolynomials(a, b, m) returns, a = quotient*b + remainder
\* (mod m) coefficientwise and degree(remainder) < degree(b); when
\* degree(a) < degree(b) the quotient is [0] and the remainder is a, trimmed.
C6_DivisionIdentity ==
  (out.op = "dividePolynomials" /\ out.err = "") =>
    /\ DivisionIdentity(args.a, args.b, out.quotient, out.remainder, args.m)
    /\ degree(out.remainder) < degree(args.b)
    /\ degree(args.a) < degree(args.b) =>
         /\ out.quotient = <<0>>
         /\ out.remainder = TrimZeros(args.a)

\* A division that ran the loop twice over a divisor whose leading
\* coefficient is not 1.
C6_Witness ==
  /\ out.op = "dividePolynomials" /\ out.err = ""
  /\ args.a = <<1, -1, 2>> /\ args.b = <<1, 2>> /\ args.m = 3
  /\ Len(out.quotient) = 2

\* C7: every coefficient of the result of addPolynomials, subtractPolynomials,
\* multiplyPolynomials and of the quotient and the remainder of
\* dividePolynomials lies in [0, m), and each result is canonical.
C7_NormalizedResults ==
  /\ (out.op \in {"addPolynomials", "subtractPolynomials", "multiplyPolynomials"}) =>
       (InRange(out.value, args.m) /\ Canonical(out.value))
  /\ (out.op = "dividePolynomials" /\ out.err = "") =>
       /\ InRange(out.quotient, args.m) /\ Canonical(out.quotient)
       /\ InRange(out.remainder, args.m) /\ Canonical(out.remainder)

(***************************************************************************)
(* polyInv and extendedEuclideanAlgorithm called on their own, with the    *)
(* ideal x^N - 1 of an instance as the second argument.                    *)
(***************************************************************************)
InvModuli == {2, 3, 4, 5, 8}
EeaModuli == {2, 3, 5}

Trinary(n) == [1..n -> {-1, 0, 1}]

InvInputs ==
  {[a |-> f, b |-> ideal(Len(f)), m |-> m] :
     f \in UNION {Trinary(n) : n \in 2..MaxInvN}, m \in InvModuli}

InitInv ==
  /\ this = constructor([N |-> RingN])
  /\ pc = "idle" /\ loop = NoLoop /\ call = NoCall
  /\ args \in InvInputs
  /\ out = NoOut /\ enc = NoEnc /\ dec = NoDec
  /\ enc2 = NoEnc /\ other = Null

ReturnedInverse(op, r) ==
  [op |-> op, err |-> r.err, value |-> r.inverse,
   quotient |-> <<>>, remainder |-> <<>>]

CallPolyInv ==
  /\ out.op = "none"
  /\ out' = ReturnedInverse("polyInv", polyInv(args.a, args.b, args.m))
  /\ UNCHANGED <<this, pc, loop, call, args, enc, dec, enc2, other>>

CallExtendedEuclideanAlgorithm ==
  /\ out.op = "none"
  /\ args.m \in EeaModuli
  /\ out' = ReturnedInverse("extendedEuclideanAlgorithm",
                            extendedEuclideanAlgorithm(args.a, args.b, args.m))
  /\ UNCHANGED <<this, pc, loop, call, args, enc, dec, enc2, other>>

NextInv == CallPolyInv \/ CallExtendedEuclideanAlgorithm

SpecInv == InitInv /\ [][NextInv]_vars

(***************************************************************************)
(* Ground truth the claims about inversion are stated with.                *)
(***************************************************************************)
\* Coefficient k of a*b reduced modulo x^n - 1 (cyclic convolution), over
\* the integers.
CyclicCoeff(a, b, n, k) ==
  SumSeq([j \in 1..Len(a) |->
    SumSeq([l \in 1..Len(b) |->
      IF (j - 1 + l - 1) % n = k THEN a[j] * b[l] ELSE 0])])

\* a*b = 1 (mod m, mod x^n - 1)
IsInverse(a, b, n, m) ==
  \A k \in 0..(n - 1) :
    (CyclicCoeff(a, b, n, k) - (IF k = 0 THEN 1 ELSE 0)) % m = 0

\* The prime a prime power m is a power of.
PrimeOf(m) == CHOOSE r \in 2..m : m % r = 0 /\ \A s \in 2..(r - 1) : m % s # 0

\* a is a unit of (Z/mZ)[x]/(x^n - 1), m a prime power: a is a unit modulo
\* m exactly when it is one modulo m's prime (an inverse modulo the prime
\* lifts to one modulo every power of it), and modulo the prime every
\* candidate inverse is tried.
Invertible(a, n, m) ==
  \E b \in [1..n -> 0..(PrimeOf(m) - 1)] : IsInverse(a, b, n, PrimeOf(m))

\* C8: for every trinary f that is invertible in (Z/mZ)[x]/(x^N - 1),
\* polyInv(f, I, m) returns g with f*g = 1 (mod m) after reduction modulo
\* x^N - 1, for m an odd prime and for m = 2^k, k >= 1.
C8_InversionCorrect ==
  (out.op = "polyInv" /\ Invertible(args.a, Len(args.a), args.m)) =>
    /\ out.err = ""
    /\ IsInverse(args.a, out.value, Len(args.a), args.m)

\* An invertible f with a -1 coefficient, inverted modulo 8: the inverse
\* modulo 2 went through two refinement passes.
C8_Witness ==
  /\ out.op = "polyInv" /\ out.err = ""
  /\ args.a = <<1, -1, 1, 0>> /\ args.m = 8
  /\ Invertible(args.a, 4, 8)
  /\ IsInverse(args.a, out.value, 4, 8)
  /\ ~IsInverse(args.a, out.value, 4, 16)

\* C9: for every f that has no inverse modulo (m, x^N - 1), polyInv and
\* extendedEuclideanAlgorithm throw instead of returning a polynomial.
C9_FailureSignalled ==
  (out.op \in {"polyInv", "extendedEuclideanAlgorithm"}
     /\ ~Invertible(args.a, Len(args.a), args.m)) =>
    out.err # ""

(***************************************************************************)
(* One NTRU instance and the calls that change its keys.                   *)
(***************************************************************************)
\* The options the modelled instances are constructed with.  With df = 3 and
\* dg = 2 generateCustomArray throws for f (5 entries) and for g (4 entries).
KeyOptions ==
  {[N |-> RingN, q |-> 8, df |-> 1, dg |-> 1, dr |-> 1],
   [N |-> RingN, q |-> 8, df |-> RingN, dg |-> RingN - 1, dr |-> 1]}

\* The arrays loadPrivateKeyF is called with, each zero-padded to length N.
\* For N = 3, q = 8: two keys that load, one that loads although it is not
\* invertible modulo 2, one whose inversion modulo q throws, one whose
\* inversion modulo p throws and one that fails the check of fq.
LoadShapes == {<<1>>, <<0, -1>>, <<0, 1, 1>>, <<-1, 1>>, <<1, -1>>, <<1, 1, 1>>}

LoadInputs(n) == {expandArray(s, n, 0) : s \in LoadShapes}

Init ==
  /\ this \in {constructor(o) : o \in KeyOptions}
  /\ pc = "idle" /\ loop = NoLoop /\ call = NoCall
  /\ args = NoArgs /\ out = NoOut /\ enc = NoEnc /\ dec = NoDec
  /\ enc2 = NoEnc /\ other = Null

Finish(op, r) ==
  /\ this' = r.this
  /\ call' = [op |-> op, err |-> r.err]

LoadPrivateKeyF ==
  /\ pc = "idle"
  /\ \E fArr \in LoadInputs(this.N) : Finish("loadPrivateKeyF", loadPrivateKeyF(this, fArr))
  /\ UNCHANGED <<pc, loop, args, out, enc, dec, enc2, other>>

\* generatePrivateKeyF is entered: let i = 0; let retval;
GeneratePrivateKeyFBegin ==
  /\ pc = "idle"
  /\ pc' = "generatePrivateKeyF"
  /\ loop' = [i |-> 0, retval |-> FALSE]
  /\ UNCHANGED <<this, call, args, out, enc, dec, enc2, other>>

\* The end of one pass: the instance as loadPrivateKeyF left it, and
\* retval assigned unless the call threw (the catch block is empty).
AttemptDone(r) ==
  /\ this' = r.this
  /\ loop' = [i |-> loop.i + 1,
              retval |-> IF r.err = "" THEN TRUE ELSE loop.retval]

\* One pass of the while loop: the condition holds, i++, and the body runs.
\* generateCustomArray throws when it cannot place 2*df - 1 entries.
GeneratePrivateKeyFAttempt ==
  /\ pc = "generatePrivateKeyF"
  /\ searchOn(this, loop.retval) /\ loop.i < maxTries
  /\ IF generateCustomArray(this.N, this.df, this.df - 1) = {}
     THEN /\ loop' = [loop EXCEPT !.i = loop.i + 1]
          /\ UNCHANGED this
     ELSE \E cand \in generateCustomArray(this.N, this.df, this.df - 1) :
            AttemptDone(loadPrivateKeyF(this, cand))
  /\ UNCHANGED <<pc, call, args, out, enc, dec, enc2, other>>

\* The loop is left and the method returns or throws.
GeneratePrivateKeyFEnd ==
  /\ pc = "generatePrivateKeyF"
  /\ ~(searchOn(this, loop.retval) /\ loop.i < maxTries)
  /\ pc' = "idle"
  /\ loop' = [loop EXCEPT !.i = IF searchOn(this, loop.retval) THEN loop.i + 1 ELSE loop.i]
  /\ call' = [op |-> "generatePrivateKeyF",
              err |-> IF this.fq = Null \/ this.fp = Null
                      THEN "Could not find invertible f" ELSE ""]
  /\ UNCHANGED <<this, args, out, enc, dec, enc2, other>>

\* generateCustomArray throws when it cannot place 2*dg entries.
GenerateNewPublicKeyGH ==
  /\ pc = "idle"
  /\ IF generateCustomArray(this.N, this.dg, this.dg) = {}
     THEN /\ call' = [op |-> "generateNewPublicKeyGH",
                      err |-> "The total of 1s and -1s cannot exceed the array length."]
          /\ UNCHANGED this
     ELSE \E gArr \in generateCustomArray(this.N, this.dg, this.dg) :
            Finish("generateNewPublicKeyGH", generateNewPublicKeyGH(this, gArr))
  /\ UNCHANGED <<pc, loop, args, out, enc, dec, enc2, other>>

GeneratePublicKeyH ==
  /\ pc = "idle"
  /\ Finish("generatePublicKeyH", generatePublicKeyH(this))
  /\ UNCHANGED <<pc, loop, args, out, enc, dec, enc2, other>>

Next ==
  \/ LoadPrivateKeyF
  \/ GeneratePrivateKeyFBegin
  \/ GeneratePrivateKeyFAttempt
  \/ GeneratePrivateKeyFEnd
  \/ GenerateNewPublicKeyGH
  \/ GeneratePublicKeyH

Spec == Init /\ [][Next]_vars

(***************************************************************************)
(* Ground truth the claims about keys are stated with.                     *)
(***************************************************************************)
\* f*fq = 1 (mod q) and f*fp = 1 (mod p), modulo x^N - 1
PrivateKeyValid(self) ==
  /\ IsInverse(self.f, self.fq, self.N, self.q)
  /\ IsInverse(self.f, self.fp, self.N, self.p)

\* The canonical form of (p*fq*g) mod q reduced modulo x^N - 1
PublicKeyOf(self) ==
  TrimZeros([k \in 1..self.N |->
    (self.p * CyclicCoeff(self.fq, self.g, self.N, k - 1)) % self.q])

\* C2: loadPrivateKeyF(f) returns only when the fq and fp it stored are
\* inverses of f modulo (q, x^N - 1) and (p, x^N - 1); an f that is not
\* invertible modulo p or modulo q is rejected with a thrown error.
C2_LoadOnlyInvertible ==
  (pc = "idle" /\ call.op = "loadPrivateKeyF" /\ call.err = "") =>
    PrivateKeyValid(this)

\* C3: between calls, whenever f, fq and fp are all set, f*fq = 1 (mod q)
\* and f*fp = 1 (mod p) modulo x^N - 1 for the stored values.
C3_KeyStateInvariant ==
  (pc = "idle" /\ this.f # Null /\ this.fq # Null /\ this.fp # Null) =>
    PrivateKeyValid(this)

\* C4: between calls, whenever fq, g and h are all set, h is the canonical
\* form of (p*fq*g) mod q reduced modulo x^N - 1 for the stored fq and g.
C4_PublicKeyInvariant ==
  (pc = "idle" /\ this.fq # Null /\ this.g # Null /\ this.h # Null) =>
    this.h = PublicKeyOf(this)

(***************************************************************************)
(* generatePrivateKeyF on a fresh instance, or after one loadPrivateKeyF.  *)
(* With N = 3: every candidate loads for df = 1, none does for df = 2, and *)
(* generateCustomArray throws for df = 3.                                  *)
(***************************************************************************)
SearchOptions ==
  {[N |-> n, q |-> 8, df |-> d, dg |-> 1, dr |-> 1] :
     n \in RingN..(RingN + 1), d \in 1..3}

InitSearch ==
  /\ this \in {constructor(o) : o \in SearchOptions}
  /\ pc = "idle" /\ loop = NoLoop /\ call = NoCall
  /\ args = NoArgs /\ out = NoOut /\ enc = NoEnc /\ dec = NoDec
  /\ enc2 = NoEnc /\ other = Null

\* An earlier call that left f, fq, fp behind.
EarlierLoadPrivateKeyF == call.op = "none" /\ LoadPrivateKeyF

NextSearch ==
  \/ EarlierLoadPrivateKeyF
  \/ GeneratePrivateKeyFBegin
  \/ GeneratePrivateKeyFAttempt
  \/ GeneratePrivateKeyFEnd

SpecSearch == InitSearch /\ [][NextSearch]_vars

\* C5: generatePrivateKeyF either throws 'Could not find invertible f' or
\* returns with f a candidate sampled during the call and fq, fp its
\* inverses; it does not return when every attempt of the call failed.
C5_SearchNeverSilent ==
  (pc = "idle" /\ call.op = "generatePrivateKeyF") =>
    \/ call.err = "Could not find invertible f"
    \/ /\ call.err = ""
       /\ loop.retval
       /\ this.f \in generateCustomArray(this.N, this.df, this.df - 1)
       /\ PrivateKeyValid(this)

(***************************************************************************)
(* Encryption and decryption on an instance whose keys were set by one     *)
(* loadPrivateKeyF and one generateNewPublicKeyGH.                         *)
(***************************************************************************)
CryptOptions ==
  {[N |-> RingN, q |-> qq, df |-> 1, dg |-> 1, dr |-> 1] : qq \in {16, 32}}

InitCrypt ==
  /\ this \in {constructor(o) : o \in CryptOptions}
  /\ pc = "idle" /\ loop = NoLoop /\ call = NoCall
  /\ args = NoArgs /\ out = NoOut /\ enc = NoEnc /\ dec = NoDec
  /\ enc2 = NoEnc /\ other = Null

\* The keys are set before anything is encrypted or decrypted.
KeysOpen == enc.err = "none" /\ dec.err = "none"

FirstLoadPrivateKeyF == this.f = Null /\ KeysOpen /\ LoadPrivateKeyF

FirstGenerateNewPublicKeyGH == this.g = Null /\ KeysOpen /\ GenerateNewPublicKeyGH

\* Plaintexts: trinary coefficients 0, 1, 2, up to N of them.
Plaintexts(n) == UNION {[1..l -> 0..2] : l \in 0..n}

\* Ciphertexts decryptBits is called with besides those encryptBits returned.
CipherSamples(n, qq) == UNION {[1..l -> {0, 1, qq - 1}] : l \in 0..n}

EncryptBits ==
  /\ pc = "idle" /\ enc.err = "none" /\ dec.err = "none"
  /\ \E m \in Plaintexts(this.N), rArr \in generateCustomArray(this.N, this.dr, this.dr) :
       enc' = [m |-> m, rArr |-> rArr] @@ encryptBits(this, m, rArr)
  /\ UNCHANGED <<this, pc, loop, call, args, out, dec, enc2, other>>

\* decryptBits of the ciphertext encryptBits returned, or of a sample.
DecryptBits ==
  /\ pc = "idle" /\ dec.err = "none"
  /\ \E e \in (IF enc.err = "" THEN {enc.value}
               ELSE IF enc.err = "none" THEN CipherSamples(this.N, this.q)
               ELSE {}) :
       dec' = [e |-> e] @@ decryptBits(this, e)
  /\ UNCHANGED <<this, pc, loop, call, args, out, enc, enc2, other>>

NextCrypt ==
  \/ FirstLoadPrivateKeyF
  \/ FirstGenerateNewPublicKeyGH
  \/ EncryptBits
  \/ DecryptBits

SpecCrypt == InitCrypt /\ [][NextCrypt]_vars

\* Coefficient k of the integer polynomial p*r*g + f*m modulo x^N - 1, with
\* r as encryptBits emitted it.
Noise(self, r, m, k) ==
  self.p * CyclicCoeff(r, self.g, self.N, k) + CyclicCoeff(self.f, m, self.N, k)

NoiseInRange(self, r, m) ==
  \A k \in 0..(self.N - 1) :
    -self.q < 2 * Noise(self, r, m, k) /\ 2 * Noise(self, r, m, k) <= self.q

\* The state after m was encrypted and the ciphertext decrypted under a key
\* that satisfies the three key invariants.
RoundTripDone ==
  /\ enc.err = "" /\ dec.err = "" /\ dec.e = enc.value
  /\ this.f # Null /\ this.fq # Null /\ this.fp # Null
  /\ this.g # Null /\ this.h # Null
  /\ PrivateKeyValid(this) /\ this.h = PublicKeyOf(this)

\* C1: for a key that satisfies the three key invariants, a plaintext m over
\* {0,1,2} of length <= N and any r, if every coefficient of p*r*g + f*m
\* lies in (-q/2, q/2], decryptBits(encryptBits(m).value).value is m, trimmed.
C1_RoundTrip ==
  (RoundTripDone /\ NoiseInRange(this, enc.inputs.r, enc.m)) =>
    dec.value = TrimZeros(enc.m)

\* C10: encryptBits(m).value is canonical, of length <= N, with coefficients
\* in [0, q); decryptBits(e).value is canonical, of length <= N, with
\* coefficients in [0, p).
C10_OutputRanges ==
  /\ (enc.err # "none" /\ this.h # Null) =>
       /\ enc.err = ""
       /\ Canonical(enc.value) /\ Len(enc.value) <= this.N
       /\ InRange(enc.value, this.q)
  /\ (dec.err # "none" /\ this.f # Null /\ this.fp # Null) =>
       /\ dec.err = ""
       /\ Canonical(dec.value) /\ Len(dec.value) <= this.N
       /\ InRange(dec.value, this.p)

\* A ciphertext with a coefficient above q/2 and its decryption.
C10_Witness ==
  /\ enc.err = "" /\ dec.err = "" /\ dec.e = enc.value
  /\ \E k \in 1..Len(enc.value) : 2 * enc.value[k] > this.q
  /\ Len(enc.value) = this.N /\ Len(dec.value) = this.N

(***************************************************************************)
(* The witness bundles of encryptBits and decryptBits.                     *)
(***************************************************************************)
\* C11: encryptBits(m).value is inputs.remainderE of the same result without
\* its trailing zeros, and decryptBits(e).value is inputs.remainder2 of the
\* same result without its trailing zeros.
C11_WitnessFidelity ==
  /\ enc.err = "" => enc.value = TrimZeros(enc.inputs.remainderE)
  /\ dec.err = "" => dec.value = TrimZeros(dec.inputs.remainder2)

\* A ciphertext and a decryption, both shorter than N, whose witnesses
\* carry padding.
C11_Witness ==
  /\ enc.err = "" /\ dec.err = "" /\ dec.e = enc.value
  /\ Len(enc.value) < this.N /\ enc.value # <<0>>
  /\ Len(dec.value) < this.N /\ dec.value # <<0>>

\* The divisor the verifier divides by: [1, 0, ..., 0, modulus - 1], of
\* length n + 1.
VerifierDivisor(n, modulus) ==
  [k \in 1..(n + 1) |-> IF k = 1 THEN 1 ELSE IF k = n + 1 THEN modulus - 1 ELSE 0]

\* The verifier's re-check of one division: for k < 2n - 1 the dividend's
\* coefficient is that of D*quotient + remainder modulo modulus, and the
\* coefficients of D*quotient from 2n - 1 on are zero modulo modulus.
\* dividend(k) is the coefficient k of the dividend, an integer.
DivisionRechecksBy(dividend(_), D, quotient, remainder, n, modulus) ==
  /\ Len(quotient) = n + 1 /\ Len(remainder) = n + 1
  /\ \A k \in 0..(2 * n - 2) :
       (dividend(k) - ProductCoeff(D, quotient, k)
          - CoeffOrZero(remainder, k)) % modulus = 0
  /\ \A k \in (2 * n - 1)..(2 * n) :
       ProductCoeff(D, quotient, k) % modulus = 0

DivisionRechecks(dividend(_), quotient, remainder, n, modulus) ==
  DivisionRechecksBy(dividend, VerifierDivisor(n, modulus),
                     quotient, remainder, n, modulus)

\* b of the verifier: b_i = (remainder1_i + [remainder1_i > q/2]) mod p
VerifierRemap(remainder1, n, q, p) ==
  [k \in 1..n |-> (remainder1[k] + (IF 2 * remainder1[k] > q THEN 1 ELSE 0)) % p]

\* The re-check of the second division of a decryptBits bundle, b being the
\* verifier's remap of remainder1.
SecondDivisionRechecks(inputs, b, n, p) ==
  DivisionRechecks(LAMBDA k : ProductCoeff(inputs.fp, b, k),
                   inputs.quotient2, inputs.remainder2, n, p)

\* C12: the bundle of every encryptBits result and of every decryptBits
\* result passes the verifier's re-check: r, m, h, f, fp, e have length N,
\* the quotients and remainders length N + 1, and each quotient/remainder
\* pair re-checks against the dividend recomputed from the emitted operands.
C12_BundleRechecks ==
  /\ enc.err = "" =>
       /\ Len(enc.inputs.r) = this.N /\ Len(enc.inputs.m) = this.N
       /\ Len(enc.inputs.h) = this.N
       /\ DivisionRechecks(
            LAMBDA k : ProductCoeff(enc.inputs.r, enc.inputs.h, k)
                         + CoeffOrZero(enc.inputs.m, k),
            enc.inputs.quotientE, enc.inputs.remainderE, this.N, this.q)
  /\ dec.err = "" =>
       /\ Len(dec.inputs.f) = this.N /\ Len(dec.inputs.fp) = this.N
       /\ Len(dec.inputs.e) = this.N
       /\ DivisionRechecks(
            LAMBDA k : ProductCoeff(dec.inputs.f, dec.inputs.e, k),
            dec.inputs.quotient1, dec.inputs.remainder1, this.N, this.q)
       /\ SecondDivisionRechecks(dec.inputs,
            VerifierRemap(dec.inputs.remainder1, this.N, this.q, this.p),
            this.N, this.p)

\* An encryption and its decryption with non-zero quotients and a
\* remainder1 coefficient above q/2.
C12_Witness ==
  /\ enc.err = "" /\ dec.err = "" /\ dec.e = enc.value
  /\ \E k \in 1..this.N : enc.inputs.quotientE[k] # 0
  /\ \E k \in 1..this.N : dec.inputs.quotient2[k] # 0
  /\ \E k \in 1..this.N : 2 * dec.inputs.remainder1[k] > this.q

\* k is the bit width of x: the least k with 2^k >= x.
IsBitWidth(k, x) == 2^k >= x /\ (k = 0 \/ 2^(k - 1) < x)

\* The params of a decryptBits bundle: [q, bitwidth(q-stage), p,
\* bitwidth(p-stage), N].
DecryptParamsRight ==
  /\ Len(dec.params) = 5
  /\ dec.params[1] = this.q /\ IsBitWidth(dec.params[2], this.q * this.q * this.N)
  /\ dec.params[3] = this.p /\ IsBitWidth(dec.params[4], this.p * this.p * this.N)
  /\ dec.params[5] = this.N

\* C13, as the code has it: decryptBits returns f, fp and e zero-padded to
\* length exactly N, quotient1, remainder1, quotient2 and remainder2
\* zero-padded to length exactly N + 1, and params [q, bitwidth(q-stage), p,
\* bitwidth(p-stage), N].
C13_DecryptBundleShape ==
  dec.err = "" =>
    /\ Len(dec.inputs.f) = this.N
    /\ \A k \in 1..Len(this.f) :
         dec.inputs.f[k] = (IF this.f[k] = -1 THEN this.q - 1 ELSE this.f[k])
    /\ Len(dec.inputs.fp) = this.N /\ TrimZeros(dec.inputs.fp) = TrimZeros(this.fp)
    /\ Len(dec.inputs.e) = this.N /\ TrimZeros(dec.inputs.e) = TrimZeros(dec.e)
    /\ \A w \in {dec.inputs.quotient1, dec.inputs.remainder1,
                 dec.inputs.quotient2, dec.inputs.remainder2} :
         Len(w) = this.N + 1 /\ w[this.N + 1] = 0
    /\ DecryptParamsRight

\* C13 as stated: each of the seven fields has length exactly N + 1.
C13_AllFieldsNPlusOne ==
  dec.err = "" =>
    /\ \A w \in {dec.inputs.f, dec.inputs.fp, dec.inputs.e,
                 dec.inputs.quotient1, dec.inputs.remainder1,
                 dec.inputs.quotient2, dec.inputs.remainder2} :
         Len(w) = this.N + 1
    /\ DecryptParamsRight

\* A decryption of a ciphertext shorter than N with fp shorter than N: e and
\* fp are padded in the bundle.
C13_Witness ==
  /\ dec.err = ""
  /\ Len(dec.e) < this.N /\ Len(this.fp) < this.N
  /\ Len(dec.inputs.e) = this.N /\ Len(dec.inputs.quotient2) = this.N + 1

(***************************************************************************)
(* Two encryptions under one public key, and the decryption of the sum of  *)
(* the two ciphertexts.                                                    *)
(***************************************************************************)
HomOptions ==
  {[N |-> RingN, q |-> qq, df |-> 1, dg |-> 1, dr |-> 1] : qq \in {16, 32}}

\* The first plaintexts: every vector of N coefficients 0, 1, 2.
HomPlaintexts == [1..RingN -> 0..2]

\* The second plaintexts: shorter than, and as long as, the first; sums
\* with them stay below p or wrap around it.
HomSecondPlaintexts == {<<1>>, <<2, 2, 2>>, <<0, 1, 2>>}

InitHom ==
  /\ this \in {constructor(o) : o \in HomOptions}
  /\ pc = "idle" /\ loop = NoLoop /\ call = NoCall
  /\ args = NoArgs /\ out = NoOut /\ enc = NoEnc /\ dec = NoDec
  /\ enc2 = NoEnc /\ other = Null

EncryptBitsFirst ==
  /\ pc = "idle" /\ enc.err = "none"
  /\ \E m \in HomPlaintexts, rArr \in generateCustomArray(this.N, this.dr, this.dr) :
       enc' = [m |-> m, rArr |-> rArr] @@ encryptBits(this, m, rArr)
  /\ UNCHANGED <<this, pc, loop, call, args, out, dec, enc2, other>>

EncryptBitsSecond ==
  /\ pc = "idle" /\ enc.err = "" /\ enc2.err = "none"
  /\ \E m \in HomSecondPlaintexts, rArr \in generateCustomArray(this.N, this.dr, this.dr) :
       enc2' = [m |-> m, rArr |-> rArr] @@ encryptBits(this, m, rArr)
  /\ UNCHANGED <<this, pc, loop, call, args, out, enc, dec, other>>

\* decryptBits(addPolynomials(encrypted1, encrypted2, q))
DecryptBitsOfSum ==
  /\ pc = "idle" /\ enc.err = "" /\ enc2.err = "" /\ dec.err = "none"
  /\ \E e \in {addPolynomials(enc.value, enc2.value, this.q)} :
       dec' = [e |-> e] @@ decryptBits(this, e)
  /\ UNCHANGED <<this, pc, loop, call, args, out, enc, enc2, other>>

NextHom ==
  \/ FirstLoadPrivateKeyF
  \/ FirstGenerateNewPublicKeyGH
  \/ EncryptBitsFirst
  \/ EncryptBitsSecond
  \/ DecryptBitsOfSum

SpecHom == InitHom /\ [][NextHom]_vars

\* Both encryptions were made and the sum decrypted, under a key that
\* satisfies the three key invariants.
HomDone ==
  /\ enc.err = "" /\ enc2.err = "" /\ dec.err = ""
  /\ this.f # Null /\ this.fq # Null /\ this.fp # Null
  /\ this.g # Null /\ this.h # Null
  /\ PrivateKeyValid(this) /\ this.h = PublicKeyOf(this)

\* Every coefficient of p*(r1 + r2)*g + f*(m1 + m2) lies in (-q/2, q/2].
SumNoiseInRange ==
  \A k \in 0..(this.N - 1) :
    LET n == Noise(this, enc.inputs.r, enc.m, k) + Noise(this, enc2.inputs.r, enc2.m, k)
    IN  -this.q < 2 * n /\ 2 * n <= this.q

\* The canonical coefficientwise sum (m1 + m2) mod p.
PlaintextSum ==
  TrimZeros([k \in 1..this.N |->
    (CoeffOrZero(enc.m, k - 1) + CoeffOrZero(enc2.m, k - 1)) % this.p])

\* C14: for a valid key and plaintexts m1, m2 encrypted under the same
\* public key, if every coefficient of the summed noise lies in (-q/2, q/2],
\* decryptBits(addPolynomials(e1, e2, q)).value is (m1 + m2) mod p.
C14_AdditiveHomomorphism ==
  (HomDone /\ SumNoiseInRange) => dec.value = PlaintextSum

(***************************************************************************)
(* Two instances: one generates a private key and is set aside to decrypt, *)
(* the other generates its own keys and encrypts.  The two instances share *)
(* no state, so the order of their calls relative to each other is         *)
(* immaterial; the decrypting instance's key is generated first.           *)
(***************************************************************************)
CrossOptions ==
  {[N |-> RingN, q |-> 32, df |-> d, dg |-> 1, dr |-> 1] : d \in 1..2}

CrossPlaintexts == {<<>>, <<1>>, <<2, 1, 1>>, <<1, 1, 1>>}

InitCross ==
  /\ this \in {constructor(o) : o \in CrossOptions}
  /\ pc = "idle" /\ loop = NoLoop /\ call = NoCall
  /\ args = NoArgs /\ out = NoOut /\ enc = NoEnc /\ dec = NoDec
  /\ enc2 = NoEnc /\ other = Null

\* generatePrivateKeyF is the first call on a new instance.
CrossGeneratePrivateKeyFBegin ==
  /\ call.op \in {"none", "constructor"}
  /\ GeneratePrivateKeyFBegin

\* The loop is left and the method returns or throws; its locals i and
\* retval are gone.
CrossGeneratePrivateKeyFEnd ==
  /\ pc = "generatePrivateKeyF"
  /\ ~(searchOn(this, loop.retval) /\ loop.i < maxTries)
  /\ pc' = "idle"
  /\ loop' = NoLoop
  /\ call' = [op |-> "generatePrivateKeyF",
              err |-> IF this.fq = Null \/ this.fp = Null
                      THEN "Could not find invertible f" ELSE ""]
  /\ UNCHANGED <<this, args, out, enc, dec, enc2, other>>

\* const ntruEnc = new NTRU: the instance that holds a private key is set
\* aside and a new one is constructed with the same options.
NewInstance ==
  /\ pc = "idle" /\ other = Null
  /\ call.op = "generatePrivateKeyF" /\ call.err = ""
  /\ other' = this
  /\ this' = constructor([k \in {"N", "p", "q", "df", "dg", "dr"} |-> this[k]])
  /\ call' = [op |-> "constructor", err |-> ""]
  /\ UNCHANGED <<pc, loop, args, out, enc, dec, enc2>>

CrossGenerateNewPublicKeyGH ==
  /\ other # Null
  /\ call.op = "generatePrivateKeyF" /\ call.err = ""
  /\ GenerateNewPublicKeyGH

CrossEncryptBits ==
  /\ pc = "idle" /\ enc.err = "none"
  /\ other # Null
  /\ call.op = "generateNewPublicKeyGH" /\ call.err = ""
  /\ \E m \in CrossPlaintexts, rArr \in generateCustomArray(this.N, this.dr, this.dr) :
       enc' = [m |-> m, rArr |-> rArr] @@ encryptBits(this, m, rArr)
  /\ UNCHANGED <<this, pc, loop, call, args, out, dec, enc2, other>>

\* ntruDec.decryptBits(encrypted): the instance set aside decrypts.
CrossDecryptBits ==
  /\ pc = "idle" /\ enc.err = "" /\ dec.err = "none"
  /\ other # Null
  /\ dec' = [e |-> enc.value] @@ decryptBits(other, enc.value)
  /\ UNCHANGED <<this, pc, loop, call, args, out, enc, enc2, other>>

NextCross ==
  \/ CrossGeneratePrivateKeyFBegin
  \/ GeneratePrivateKeyFAttempt
  \/ CrossGeneratePrivateKeyFEnd
  \/ NewInstance
  \/ CrossGenerateNewPublicKeyGH
  \/ CrossEncryptBits
  \/ CrossDecryptBits

SpecCross == InitCross /\ [][NextCross]_vars

\* A ciphertext made under this instance's public key was decrypted by the
\* other instance, whose private key is a different polynomial.
CrossDone ==
  /\ other # Null /\ enc.err = "" /\ dec.err # "none"
  /\ dec.e = enc.value
  /\ this.f # other.f

IsRotation(a, b, n) ==
  \E s \in 0..(n - 1) :
    \A i \in 0..(n - 1) : CoeffOrZero(b, (i + s) % n) = CoeffOrZero(a, i)

\* The case in which the other key must reproduce the plaintext: both keys
\* and the public key are valid, the other f is a rotation of this f, the
\* noise is in range and q = -1 (mod p), where the sign remap is exact.
RotatedKeyCase ==
  /\ PrivateKeyValid(this) /\ PrivateKeyValid(other)
  /\ this.h = PublicKeyOf(this)
  /\ IsRotation(this.f, other.f, this.N)
  /\ InRange(enc.m, this.p)
  /\ NoiseInRange(this, enc.inputs.r, enc.m)
  /\ this.q % this.p = this.p - 1

MaxLawLen == 2

\* A negative coefficient, zero, and a coefficient whose double and whose
\* square vanish modulo 4.
LawCoeffs == {-1, 0, 2}
LawModuli == {3, 4}

LawPolys == UNION {[1..l -> LawCoeffs] : l \in 0..MaxLawLen}

LawInputs ==
  {[a |-> a, b |-> b, c |-> c, m |-> m] :
     a \in LawPolys, b \in LawPolys, c \in LawPolys, m \in LawModuli}

InitLaws ==
  /\ this = constructor([N |-> RingN])
  /\ pc = "idle" /\ loop = NoLoop /\ call = NoCall
  /\ args \in LawInputs
  /\ out = NoOut /\ enc = NoEnc /\ dec = NoDec
  /\ enc2 = NoEnc /\ other = Null

BothSides(op, lhs, rhs) == [op |-> op, err |-> "", lhs |-> lhs, rhs |-> rhs]

\* addPolynomials(a, b, m) and addPolynomials(b, a, m)
CallAddBothOrders ==
  /\ out.op = "none"
  /\ out' = BothSides("commute",
                      addPolynomials(args.a, args.b, args.m),
                      addPolynomials(args.b, args.a, args.m))
  /\ UNCHANGED <<this, pc, loop, call, args, enc, dec, enc2, other>>

\* addPolynomials(addPolynomials(a, b, m), c, m) and
\* addPolynomials(a, addPolynomials(b, c, m), m)
CallAddBothGroupings ==
  /\ out.op = "none"
  /\ out' = BothSides("associate",
                      addPolynomials(addPolynomials(args.a, args.b, args.m), args.c, args.m),
                      addPolynomials(args.a, addPolynomials(args.b, args.c, args.m), args.m))
  /\ UNCHANGED <<this, pc, loop, call, args, enc, dec, enc2, other>>

\* multiplyPolynomials(a, addPolynomials(b, c, m), m) and
\* addPolynomials(multiplyPolynomials(a, b, m), multiplyPolynomials(a, c, m), m)
CallMultiplySum ==
  /\ out.op = "none"
  /\ out' = BothSides("distribute",
                      multiplyPolynomials(args.a, addPolynomials(args.b, args.c, args.m), args.m),
                      addPolynomials(multiplyPolynomials(args.a, args.b, args.m),
                                     multiplyPolynomials(args.a, args.c, args.m), args.m))
  /\ UNCHANGED <<this, pc, loop, call, args, enc, dec, enc2, other>>

NextLaws == CallAddBothOrders \/ CallAddBothGroupings \/ CallMultiplySum

SpecLaws == InitLaws /\ [][NextLaws]_vars

MaxTextLen == 2

\* NUL, codes with one and with seven trailing zero bits, and codes whose
\* last bit is set.
TextChars == {0, 1, 2, 65, 128, 254, 255}

Texts == UNION {[1..l -> TextChars] : l \in 0..MaxTextLen}

InitText ==
  /\ this = constructor([N |-> 8 * MaxTextLen])
  /\ pc = "idle" /\ loop = NoLoop /\ call = NoCall
  /\ args \in {[s |-> s] : s \in Texts}
  /\ out = NoOut /\ enc = NoEnc /\ dec = NoDec
  /\ enc2 = NoEnc /\ other = Null

\* encryptStr: stringToBits(inputPlain)
CallStringToBits ==
  /\ out.op = "none"
  /\ out' = [op |-> "stringToBits", err |-> "", value |-> stringToBits(args.s)]
  /\ UNCHANGED <<this, pc, loop, call, args, enc, dec, enc2, other>>

\* decryptBits recovers the plaintext: its value is the trimmed vector.
RecoverPlaintext ==
  /\ out.op = "stringToBits"
  /\ out' = [op |-> "decryptBits", err |-> "", value |-> trimPolynomial(out.value)]
  /\ UNCHANGED <<this, pc, loop, call, args, enc, dec, enc2, other>>

\* decryptStr: expandArrayToMultiple(this.decryptBits(encrypted).value, 8)
CallExpandArrayToMultiple ==
  /\ out.op = "decryptBits"
  /\ out' = [op |-> "expandArrayToMultiple", err |-> "",
             value |-> expandArrayToMultiple(out.value, 8)]
  /\ UNCHANGED <<this, pc, loop, call, args, enc, dec, enc2, other>>

\* decryptStr: bitsToString(...)
CallBitsToString ==
  /\ out.op = "expandArrayToMultiple"
  /\ out' = [op |-> "bitsToString", err |-> "", value |-> bitsToString(out.value)]
  /\ UNCHANGED <<this, pc, loop, call, args, enc, dec, enc2, other>>

NextText ==
  \/ CallStringToBits
  \/ RecoverPlaintext
  \/ CallExpandArrayToMultiple
  \/ CallBitsToString

SpecText == InitText /\ [][NextText]_vars

\* C17: for every string s of 8-bit characters, the empty string and
\* strings ending in NUL included,
\* bitsToString(expandArrayToMultiple(trimPolynomial(stringToBits(s)), 8)) = s.
C17_TextRoundTrip ==
  out.op = "bitsToString" => out.value = args.s

(***************************************************************************)
(* One instance whose methods are called in every key state, complete or   *)
(* not, with arguments inside and outside their documented ranges.         *)
(***************************************************************************)
CallOptions == {[N |-> RingN, q |-> 8, df |-> 1, dg |-> 1, dr |-> 1]}

\* Plaintexts of at most N coefficients, and of N + 1 and N + 2.
CallPlaintexts(n) ==
  {<<>>, <<1>>, [k \in 1..n |-> 2], [k \in 1..(n + 1) |-> 1], [k \in 1..(n + 2) |-> k % 2]}

\* The empty string and a string of one character, 8 bits.
CallStrings == {<<>>, <<65>>}

InitCalls ==
  /\ this \in {constructor(o) : o \in CallOptions}
  /\ pc = "idle" /\ loop = NoLoop /\ call = NoCall
  /\ args = NoArgs /\ out = NoOut /\ enc = NoEnc /\ dec = NoDec
  /\ enc2 = NoEnc /\ other = Null

\* No result of encryptBits, decryptBits or verifyKeysInputs is held yet.
CallsOpen == enc.err = "none" /\ dec.err = "none" /\ out.op = "none"

KeyLoadPrivateKeyF == CallsOpen /\ LoadPrivateKeyF

KeyGenerateNewPublicKeyGH == CallsOpen /\ GenerateNewPublicKeyGH

KeyGeneratePublicKeyH == CallsOpen /\ GeneratePublicKeyH

\* this as the call found it is kept in enc.before.
CallEncryptBits ==
  /\ pc = "idle" /\ CallsOpen
  /\ \E m \in CallPlaintexts(this.N), rArr \in generateCustomArray(this.N, this.dr, this.dr) :
       enc' = [m |-> m, rArr |-> rArr, op |-> "encryptBits", before |-> this]
                @@ encryptBits(this, m, rArr)
  /\ UNCHANGED <<this, pc, loop, call, args, out, dec, enc2, other>>

CallEncryptStr ==
  /\ pc = "idle" /\ CallsOpen
  /\ \E s \in CallStrings, rArr \in generateCustomArray(this.N, this.dr, this.dr) :
       enc' = [m |-> stringToBits(s), rArr |-> rArr, op |-> "encryptStr", before |-> this]
                @@ encryptStr(this, s, rArr)
  /\ UNCHANGED <<this, pc, loop, call, args, out, dec, enc2, other>>

\* decryptBits of the ciphertext an encryption returned, or of a sample.
CallDecryptBits ==
  /\ pc = "idle" /\ dec.err = "none" /\ out.op = "none"
  /\ \E e \in (IF enc.err = "" THEN {enc.value}
               ELSE IF enc.err = "none" THEN CipherSamples(this.N, this.q)
               ELSE {}) :
       dec' = [e |-> e, before |-> this] @@ decryptBits(this, e)
  /\ UNCHANGED <<this, pc, loop, call, args, out, enc, enc2, other>>

CallVerifyKeysInputs ==
  /\ pc = "idle" /\ CallsOpen
  /\ out' = [op |-> "verifyKeysInputs", before |-> this] @@ verifyKeysInputs(this)
  /\ UNCHANGED <<this, pc, loop, call, args, enc, dec, enc2, other>>

NextCalls ==
  \/ KeyLoadPrivateKeyF
  \/ KeyGenerateNewPublicKeyGH
  \/ KeyGeneratePublicKeyH
  \/ CallEncryptBits
  \/ CallEncryptStr
  \/ CallDecryptBits
  \/ CallVerifyKeysInputs

SpecCalls == InitCalls /\ [][NextCalls]_vars

\* The messages of the guards that name a missing key component.
MissingKeyErrors ==
  {"missing private key F", "missing private key Fq", "missing private key Fp",
   "missing private key G", "missing public key H"}

\* A step that is a call of generatePublicKeyH.
GeneratePublicKeyHStep ==
  call'.op = "generatePublicKeyH" /\ enc' = enc /\ dec' = dec /\ out' = out

\* C18: generatePublicKeyH with f, fq or g unset, encryptBits with h unset,
\* decryptBits with f or fp unset and verifyKeysInputs with any of f, fq,
\* fp, g, h unset each fail with a missing-key error and leave every field
\* of the instance unchanged.
C18_MissingKeyAborts ==
  [][/\ (GeneratePublicKeyHStep /\ (this.f = Null \/ this.fq = Null \/ this.g = Null))
          => (call'.err \in MissingKeyErrors /\ this' = this)
     /\ (enc' # enc /\ this.h = Null)
          => (enc'.err \in MissingKeyErrors /\ this' = this)
     /\ (dec' # dec /\ (this.f = Null \/ this.fp = Null))
          => (dec'.err \in MissingKeyErrors /\ this' = this)
     /\ (out' # out /\ (this.f = Null \/ this.fq = Null \/ this.fp = Null
                          \/ this.g = Null \/ this.h = Null))
          => (out'.err \in MissingKeyErrors /\ this' = this)]_vars

\* C19: with f and fp set, decryptBits(e) throws nothing and returns a
\* vector over [0, p) for every e of at most N coefficients in [0, q),
\* whether e was made under this key, under another key, with noise outside
\* (-q/2, q/2], or by no encryption at all.
C19_DecryptionNeverThrows ==
  (/\ dec.err # "none"
   /\ dec.before.f # Null /\ dec.before.fp # Null
   /\ Len(dec.e) <= this.N /\ InRange(dec.e, this.q)) =>
    /\ dec.err = ""
    /\ Len(dec.value) \in 1..this.N /\ InRange(dec.value, this.p)

\* A valid key pair, a ciphertext whose noise leaves (-q/2, q/2], and a
\* decryption that returns a vector other than the plaintext.
C19_Witness ==
  /\ enc.err = "" /\ enc.op = "encryptBits" /\ dec.err = "" /\ dec.e = enc.value
  /\ PrivateKeyValid(this) /\ this.h = PublicKeyOf(this)
  /\ ~NoiseInRange(this, enc.inputs.r, enc.m)
  /\ dec.value # TrimZeros(enc.m)

\* C20: encryptBits(m) with more than N coefficients in m, and encryptStr(s)
\* with more than N bits in s, fail with an error and return neither a
\* ciphertext nor a witness bundle; the instance is left as it was.
C20_OversizedRejected ==
  (enc.err # "none" /\ Len(enc.m) > this.N) =>
    /\ enc.err # ""
    /\ enc.value = <<>> /\ enc.inputs = <<>> /\ enc.params = <<>>
    /\ this = enc.before

\* A complete key, and a plaintext of N + 1 coefficients that was rejected
\* with expandArray's RangeError.
C20_Witness ==
  /\ enc.err = "RangeError" /\ enc.value = <<>>
  /\ enc.op = "encryptBits" /\ Len(enc.m) = this.N + 1
  /\ this.h # Null /\ this.h = PublicKeyOf(this) /\ PrivateKeyValid(this)

(***************************************************************************)
(* The key search as a running method: once generatePrivateKeyF is         *)
(* entered its loop keeps executing, one pass after another, until the     *)
(* method returns or throws.  Whether it is called at all is up to the     *)
(* caller.                                                                 *)
(***************************************************************************)
\* The guards of the two actions.  A step of either changes loop or pc, so
\* each guard is the action's ENABLED <<...>>_vars.
AttemptEnabled ==
  pc = "generatePrivateKeyF" /\ searchOn(this, loop.retval) /\ loop.i < maxTries

EndEnabled ==
  pc = "generatePrivateKeyF" /\ ~(searchOn(this, loop.retval) /\ loop.i < maxTries)

\* Weak fairness of each action, WF_vars(A), written out as
\* []<>(~ENABLED <<A>>_vars) \/ []<><<A>>_vars.
\* With N = 3: every candidate loads for df = 1, none does for df = 2, and
\* generateCustomArray throws for df = 3.
LiveSearchOptions ==
  {[N |-> RingN, q |-> 8, df |-> d, dg |-> 1, dr |-> 1] : d \in 1..3}

InitSearchLive ==
  /\ this \in {constructor(o) : o \in LiveSearchOptions}
  /\ pc = "idle" /\ loop = NoLoop /\ call = NoCall
  /\ args = NoArgs /\ out = NoOut /\ enc = NoEnc /\ dec = NoDec
  /\ enc2 = NoEnc /\ other = Null

SpecSearchLive ==
  /\ InitSearchLive /\ [][NextSearch]_vars
  /\ ([]<>(~AttemptEnabled) \/ []<><<GeneratePrivateKeyFAttempt>>_vars)
  /\ ([]<>(~EndEnabled) \/ []<><<GeneratePrivateKeyFEnd>>_vars)

\* C21: a call of generatePrivateKeyF makes at most maxTries = 100 passes,
\* makes no pass after one in which loadPrivateKeyF returned (the f stored
\* is then that pass's candidate and stays), and always comes to its end.
C21_BoundedSearch ==
  /\ [](pc = "generatePrivateKeyF" => loop.i <= 100)
  /\ [][loop'.i > loop.i => loop'.i = loop.i + 1]_vars
  /\ [][(pc = "generatePrivateKeyF" /\ ~loop.retval /\ loop'.retval) =>
          /\ this'.f \in generateCustomArray(this.N, this.df, this.df - 1)
          /\ this'.fq # Null /\ this'.fp # Null]_vars
  /\ [][(pc = "generatePrivateKeyF" /\ loop.retval) =>
          (pc' = "idle" /\ this' = this /\ call'.err = "")]_vars
  /\ (pc = "generatePrivateKeyF" ~> pc = "idle")

\* A search has returned after its first pass, the candidate of that pass
\* loaded.
C21_Witness ==
  /\ pc = "idle" /\ call.op = "generatePrivateKeyF" /\ call.err = ""
  /\ loop.retval /\ loop.i = 1
  /\ this.df = 1 /\ this.f \in generateCustomArray(this.N, 1, 0)

(***************************************************************************)
(* The sign remap of decryptBits on its own, for q a power of two.         *)
(***************************************************************************)
MaxLogQ == 12

RemapInputs(maxLog) ==
  {[x |-> x, q |-> 2^k, p |-> 3] : k \in 1..maxLog, x \in 0..(2^maxLog - 1)}

InitRemap ==
  /\ this = constructor([N |-> RingN])
  /\ pc = "idle" /\ loop = NoLoop /\ call = NoCall
  /\ args \in {i \in RemapInputs(MaxLogQ) : i.x < i.q}
  /\ out = NoOut /\ enc = NoEnc /\ dec = NoDec
  /\ enc2 = NoEnc /\ other = Null

\* aDiv.remainder.map(x => x > this.q/2 ? (x+1)%this.p : x%this.p), one entry
CallSignRemap ==
  /\ out.op = "none"
  /\ out' = [op |-> "signRemap", err |-> "", value |-> signRemap(args.x, args.q, args.p)]
  /\ UNCHANGED <<this, pc, loop, call, args, enc, dec, enc2, other>>

NextRemap == CallSignRemap

SpecRemap == InitRemap /\ [][NextRemap]_vars

\* x - q when x > q/2, else x
CenteredRepresentative(x, q) == IF 2 * x > q THEN x - q ELSE x

\* C22: for q a power of two, p = 3 and every x in [0, q), the value
\* decryptBits computes from x is congruent modulo p to the centred
\* representative of x.
C22_RemapIsCentered ==
  out.op = "signRemap" =>
    (out.value - CenteredRepresentative(args.x, args.q)) % args.p = 0

(***************************************************************************)
(* verifyKeysInputs on an instance whose five key fields were supplied     *)
(* through the constructor's options.                                      *)
(***************************************************************************)
\* Candidates for fq and fp: the inverses of the monomials, a polynomial
\* that is no inverse of them, and a constant that is not 1.
SuppliedInverses == {<<1>>, <<0, 1>>, <<0, 0, 1>>, <<1, 1>>, <<2>>}

\* Candidates for h: the coefficients 0, p and q - p a public key has for a
\* monomial fq, in at least one and at most N places.
SuppliedH(n, qq, pp) == UNION {[1..l -> {0, pp, qq - pp}] : l \in 1..n}

SuppliedKeys(n) ==
  {[N |-> n, q |-> 8, f |-> f, fq |-> fq, fp |-> fp, g |-> g, h |-> h] :
     f \in generateCustomArray(n, 1, 0),
     fq \in SuppliedInverses, fp \in SuppliedInverses,
     g \in generateCustomArray(n, 1, 1),
     h \in SuppliedH(n, 8, 3)}

InitVerify ==
  /\ this \in {constructor(o) : o \in SuppliedKeys(RingN)}
  /\ pc = "idle" /\ loop = NoLoop /\ call = NoCall
  /\ args = NoArgs /\ out = NoOut /\ enc = NoEnc /\ dec = NoDec
  /\ enc2 = NoEnc /\ other = Null

VerifyKeysInputs ==
  /\ out.op = "none"
  /\ out' = [op |-> "verifyKeysInputs"] @@ verifyKeysInputs(this)
  /\ UNCHANGED <<this, pc, loop, call, args, enc, dec, enc2, other>>

NextVerify == VerifyKeysInputs

SpecVerify == InitVerify /\ [][NextVerify]_vars

\* f*fq = 1 (mod q), f*fp = 1 (mod p) and h is the remainder of (p*fq)*g
\* divided by x^N - 1 modulo q, every coefficient of it.
KeysCoherent(self) ==
  /\ PrivateKeyValid(self)
  /\ self.h = PublicKeyOf(self)

\* C23: with f, fq, fp, g and h all set, verifyKeysInputs returns a witness
\* only if the keys are coherent, and otherwise throws 'invalid fq',
\* 'invalid fp' or 'invalid h'.
C23_VerifyFailsClosed ==
  out.op = "verifyKeysInputs" =>
    IF KeysCoherent(this) THEN out.err = ""
    ELSE out.err \in {"invalid fq", "invalid fp", "invalid h"}

(***************************************************************************)
(* C24: what a throwing loadPrivateKeyF leaves in the instance.            *)
(***************************************************************************)
\* C24: whenever loadPrivateKeyF(f) throws, the fields f, fq and fp of the
\* instance keep the values they had before the call.
C24_FailedLoadAtomic ==
  [][(pc = "idle" /\ pc' = "idle" /\
      call'.op = "loadPrivateKeyF" /\ call'.err # "") =>
        (this'.f = this.f /\ this'.fq = this.fq /\ this'.fp = this.fp)]_vars

(***************************************************************************)
(* C25: the inputs dividePolynomials throws for.                           *)
(***************************************************************************)
IsZeroPolynomial(poly) == \A k \in 1..Len(poly) : poly[k] = 0

\* The index of the last non-zero coefficient, -1 for the zero polynomial.
Deg(poly) == IF IsZeroPolynomial(poly) THEN -1 ELSE Len(TrimZeros(poly)) - 1

LeadingCoefficient(poly) == TrimZeros(poly)[Len(TrimZeros(poly))]

HasInverseMod(c, m) == \E x \in 0..(m - 1) : (c * x - 1) % m = 0

DivisionError(a, b, m) ==
  IF IsZeroPolynomial(b) THEN "Cannot divide by zero polynomial."
  ELSE IF Deg(a) >= Deg(b) /\ ~HasInverseMod(LeadingCoefficient(b), m)
       THEN "No inverse exists for division."
       ELSE ""

\* C25: dividePolynomials(a, b, m) throws 'Cannot divide by zero polynomial.'
\* exactly when b is the zero polynomial, 'No inverse exists for division.'
\* exactly when b is not zero, degree(a) >= degree(b) and the leading
\* coefficient of b has no inverse modulo m, and returns a quotient and a
\* remainder for every other input.
C25_DivisionThrowsExactly ==
  out.op = "dividePolynomials" =>
    /\ out.err = DivisionError(args.a, args.b, args.m)
    /\ out.err = "" => (Len(out.quotient) >= 1 /\ Len(out.remainder) >= 1)

\* A division by a divisor of leading coefficient 2 modulo 4 that throws,
\* the dividend's leading coefficient being -1.
C25_Witness ==
  /\ out.op = "dividePolynomials"
  /\ out.err = "No inverse exists for division."
  /\ args.a = <<1, 0, -1>> /\ args.b = <<-1, 2>> /\ args.m = 4

(***************************************************************************)
(* generateCustomArray step by step: the two fill loops, then the shuffle  *)
(* loop, one pass per step, j being any index the random value can give.   *)
(***************************************************************************)
MaxSampleLen == 4

SampleInputs ==
  {[length |-> l, numOnes |-> o, numNegOnes |-> n] :
     l \in 0..MaxSampleLen, o \in 0..MaxSampleLen, n \in 0..MaxSampleLen}

\* array after "Add 1s to the array" and "Add -1s to the array"
filledArray(length, numOnes, numNegOnes) ==
  [k \in 1..length |->
     IF k - 1 < numOnes THEN 1
     ELSE IF k - 1 < numOnes + numNegOnes THEN -1 ELSE 0]

\* array[i] = array[j] without the exchange
overwriteEntry(array, i, j) == [array EXCEPT ![i + 1] = array[j + 1]]

\* [array[i], array[j]] = [array[j], array[i]]
swapEntries(array, i, j) ==
  [array EXCEPT ![i + 1] = array[j + 1], ![j + 1] = array[i + 1]]

NoShuffle == [i |-> 0, array |-> <<>>]

InitSample ==
  /\ this = constructor([N |-> RingN])
  /\ pc = "idle" /\ loop = NoShuffle /\ call = NoCall
  /\ args \in SampleInputs
  /\ out = NoOut /\ enc = NoEnc /\ dec = NoDec
  /\ enc2 = NoEnc /\ other = Null

\* The call up to the shuffle loop: the guard, the allocation and the fills.
GenerateCustomArrayEnter ==
  /\ pc = "idle" /\ out.op = "none"
  /\ IF args.numOnes + args.numNegOnes > args.length
     THEN /\ out' = [op |-> "generateCustomArray",
                     err |-> "The total of 1s and -1s cannot exceed the array length.",
                     value |-> <<>>]
          /\ UNCHANGED <<pc, loop>>
     ELSE /\ pc' = "shuffle"
          /\ loop' = [i |-> args.length - 1,
                      array |-> filledArray(args.length, args.numOnes, args.numNegOnes)]
          /\ UNCHANGED out
  /\ UNCHANGED <<this, call, args, enc, dec, enc2, other>>

\* One pass of the shuffle loop: j = uintArray[0] % (i + 1), then the swap.
GenerateCustomArraySwap ==
  /\ pc = "shuffle" /\ loop.i > 0
  /\ \E j \in 0..loop.i :
       loop' = [i |-> loop.i - 1, array |-> swapEntries(loop.array, loop.i, j)]
  /\ UNCHANGED <<this, pc, call, args, out, enc, dec, enc2, other>>

\* The loop is left: return array.
GenerateCustomArrayReturn ==
  /\ pc = "shuffle" /\ ~(loop.i > 0)
  /\ pc' = "idle"
  /\ out' = [op |-> "generateCustomArray", err |-> "", value |-> loop.array]
  /\ UNCHANGED <<this, loop, call, args, enc, dec, enc2, other>>

NextSample ==
  \/ GenerateCustomArrayEnter
  \/ GenerateCustomArraySwap
  \/ GenerateCustomArrayReturn

SpecSample == InitSample /\ [][NextSample]_vars

Occurrences(s, v) == Cardinality({k \in 1..Len(s) : s[k] = v})

\* C26: for numOnes, numNegOnes >= 0 with numOnes + numNegOnes <= N and
\* every outcome of the random swaps, generateCustomArray(N, numOnes,
\* numNegOnes) returns a vector of length N with exactly numOnes entries 1,
\* exactly numNegOnes entries -1 and every other entry 0; it throws when
\* numOnes + numNegOnes > N.
C26_SamplingKeepsWeights ==
  out.op = "generateCustomArray" =>
    IF args.numOnes + args.numNegOnes > args.length
    THEN out.err = "The total of 1s and -1s cannot exceed the array length."
    ELSE /\ out.err = ""
         /\ Len(out.value) = args.length
         /\ Occurrences(out.value, 1) = args.numOnes
         /\ Occurrences(out.value, -1) = args.numNegOnes
         /\ Occurrences(out.value, 0) = args.length - args.numOnes - args.numNegOnes

\* A returned vector the shuffle has moved both non-zero entries of.
C26_Witness ==
  /\ out.op = "generateCustomArray" /\ out.err = ""
  /\ args.length = 4 /\ args.numOnes = 1 /\ args.numNegOnes = 1
  /\ out.value = <<0, -1, 0, 1>>

(***************************************************************************)
(* The bundles of an instance of N = 4 with two 1s in f and in g: keys     *)
(* are loaded from sampled f, as generatePrivateKeyF does, and g sampled.  *)
(***************************************************************************)
WidthN == 4

WidthOptions == {[N |-> WidthN, q |-> 8, df |-> 2, dg |-> 2, dr |-> 1]}

InitWidth ==
  /\ this \in {constructor(o) : o \in WidthOptions}
  /\ pc = "idle" /\ loop = NoLoop /\ call = NoCall
  /\ args = NoArgs /\ out = NoOut /\ enc = NoEnc /\ dec = NoDec
  /\ enc2 = NoEnc /\ other = Null

\* loadPrivateKeyF(generateCustomArray(N, df, df - 1)) on the new instance
SampledLoadPrivateKeyF ==
  /\ pc = "idle" /\ CallsOpen /\ call.op = "none"
  /\ \E fArr \in generateCustomArray(this.N, this.df, this.df - 1) :
       Finish("loadPrivateKeyF", loadPrivateKeyF(this, fArr))
  /\ UNCHANGED <<pc, loop, args, out, enc, dec, enc2, other>>

\* generateNewPublicKeyGH once f is loaded
SampledGenerateNewPublicKeyGH ==
  /\ call.op = "loadPrivateKeyF" /\ call.err = ""
  /\ KeyGenerateNewPublicKeyGH

NextWidth ==
  \/ SampledLoadPrivateKeyF
  \/ SampledGenerateNewPublicKeyGH
  \/ CallEncryptBits
  \/ CallDecryptBits
  \/ CallVerifyKeysInputs

SpecWidth == InitWidth /\ [][NextWidth]_vars

\* Every coefficient of the integer product a*b, plus the coefficient of
\* added at the same index, is smaller than 2^w.
WidthSufficient(a, b, added, w) ==
  \A k \in 0..(Len(a) + Len(b) - 2) :
    ProductCoeff(a, b, k) + (IF k < Len(added) THEN added[k + 1] ELSE 0) < 2^w

\* The operand the verifier multiplies fp by: remainder1 after the remap.
RemappedRemainder(inputs, params) ==
  [k \in 1..params[5] |-> signRemap(inputs.remainder1[k], params[1], params[3])]

\* C27: in every emitted bundle (encryptBits, decryptBits, and the fq, fp
\* and h cases of verifyKeysInputs) the bit width w emitted beside a modulus
\* is sufficient: every coefficient of the unreduced integer product of the
\* two operand fields, plus the term added before reduction, is below 2^w.
C27_BitWidthsSufficient ==
  /\ enc.err = "" =>
       WidthSufficient(enc.inputs.r, enc.inputs.h, enc.inputs.m, enc.params[2])
  /\ dec.err = "" =>
       /\ WidthSufficient(dec.inputs.f, dec.inputs.e, <<>>, dec.params[2])
       /\ WidthSufficient(dec.inputs.fp, RemappedRemainder(dec.inputs, dec.params),
                          <<>>, dec.params[4])
  /\ (out.op = "verifyKeysInputs" /\ out.err = "") =>
       /\ WidthSufficient(out.fq.inputs.f, out.fq.inputs.fq, <<>>, out.fq.params[2])
       /\ WidthSufficient(out.fp.inputs.f, out.fp.inputs.fq, <<>>, out.fp.params[2])
       /\ WidthSufficient(out.h.inputs.f, out.h.inputs.fq, <<>>, out.h.params[2])

(***************************************************************************)
(* The arrays a call is handed, as the call leaves them.  Each array       *)
(* variable of a function body is bound to an object: "a" or "b" for the   *)
(* caller's arrays, "new" for an array created during the call.  A write   *)
(* to an element changes the object the written variable is bound to.      *)
(***************************************************************************)
MaxFrameLen == 2

\* arr.slice(), arr being bound to obj: the copy is a new array
sliceSame(obj) == obj

sliceOf(obj) == "new"

\* heap holds the contents of the caller's arrays; val is stored in obj
Stored(heap, obj, val) ==
  IF obj = "a" THEN [heap EXCEPT !.a = val]
  ELSE IF obj = "b" THEN [heap EXCEPT !.b = val]
  ELSE heap

\* addPolynomials writes result, const result = []
addPolynomials_leaves(a, b, m) ==
  Stored([a |-> a, b |-> b], "new", addPolynomials(a, b, m))

\* subtractPolynomials writes result, const result = []
subtractPolynomials_leaves(a, b, m) ==
  Stored([a |-> a, b |-> b], "new", subtractPolynomials(a, b, m))

\* multiplyPolynomials writes A, B (new Array(n), also inside fft) and
\* result (new Array(resultLength))
multiplyPolynomials_leaves(a, b, m) ==
  Stored([a |-> a, b |-> b], "new", multiplyPolynomials(a, b, m))

\* multiplyPolynomialsByScalar returns poly.map(...), a new array
multiplyPolynomialsByScalar_leaves(poly, scalar, m) ==
  Stored([a |-> poly, b |-> <<>>], "new", multiplyPolynomialsByScalar(poly, scalar, m))

\* dividend as the loop of dividePolynomials leaves it, on return or throw
RECURSIVE divideLoopDividend(_, _, _)
divideLoopDividend(dividend, divisor, m) ==
  IF degree(dividend) < degree(divisor) THEN dividend
  ELSE IF modInverse(divisor[degree(divisor) + 1], m) = NoInverse THEN dividend
  ELSE divideLoopDividend(
         divideSubtract(dividend, divisor, degree(divisor),
                        degree(dividend) - degree(divisor),
                        JsRem(dividend[degree(dividend) + 1]
                                * modInverse(divisor[degree(divisor) + 1], m), m),
                        m),
         divisor, m)

\* dividePolynomials writes dividend = a.slice() and quotient = new Array;
\* divisor = b.slice() is only read
dividePolynomials_leaves(a, b, m) ==
  IF degree(b) = -1 THEN [a |-> a, b |-> b]
  ELSE Stored([a |-> a, b |-> b], sliceOf("a"), divideLoopDividend(a, b, m))

\* extendedEuclideanAlgorithm writes no element itself; r0 = a.slice() and
\* r1 = b.slice() are handed to dividePolynomials, then r0 = r1 and
\* r1 = remainder.  s0 and s1 are arrays created in the call.
RECURSIVE eeaLoopLeaves(_, _, _, _, _, _)
RECURSIVE eeaLoopLeavesBody(_, _, _, _, _, _)

eeaLoopLeaves(heap, r0obj, r0, r1obj, r1, m) ==
  IF degree(r1) < 0 THEN heap
  ELSE eeaLoopLeavesBody(heap, r0obj, r1obj,
         dividePolynomials_leaves(r0, r1, m), dividePolynomials(r0, r1, m), m)

eeaLoopLeavesBody(heap, r0obj, r1obj, w, d, m) ==
  IF d.err # "" THEN Stored(Stored(heap, r0obj, w.a), r1obj, w.b)
  ELSE eeaLoopLeaves(Stored(Stored(heap, r0obj, w.a), r1obj, w.b),
                     r1obj, w.b, "new", d.remainder, m)

extendedEuclideanAlgorithm_leaves(a, b, m) ==
  eeaLoopLeaves([a |-> a, b |-> b], sliceOf("a"), a, sliceOf("b"), b, m)

\* The refinement loop of polyInv hands polyIn to multiplyPolynomials as its
\* first array and polyI to dividePolynomials as its second; heap.a is
\* polyIn, heap.b is polyI.
RECURSIVE refineLoopLeaves(_, _, _, _, _)
RECURSIVE refineLoopLeavesBody(_, _, _, _, _)

refineLoopLeavesPass(heap, square, updatedInverse, polyMod, a, exponent) ==
  refineLoopLeavesBody(
    [a |-> multiplyPolynomials_leaves(heap.a, square, polyMod).a,
     b |-> dividePolynomials_leaves(updatedInverse, heap.b, polyMod).b],
    dividePolynomials(updatedInverse, heap.b, polyMod), polyMod, a, exponent)

refineLoopLeaves(heap, inverse, polyMod, a, exponent) ==
  IF a >= exponent THEN heap
  ELSE refineLoopLeavesPass(heap,
         multiplyPolynomials(inverse, inverse, polyMod),
         subtractPolynomials(
           multiplyPolynomialsByScalar(inverse, 2, polyMod),
           multiplyPolynomials(heap.a,
             multiplyPolynomials(inverse, inverse, polyMod), polyMod),
           polyMod),
         polyMod, a, exponent)

refineLoopLeavesBody(heap, d, polyMod, a, exponent) ==
  IF d.err # "" THEN heap
  ELSE refineLoopLeaves(heap, trimPolynomial(d.remainder), polyMod, a + 1, exponent)

polyInvRefine_leaves(heap, e, polyMod) ==
  IF e.err # "" THEN heap
  ELSE refineLoopLeaves(heap, e.inverse, polyMod, 1, Log2(polyMod))

polyInv_leaves(polyIn, polyI, polyMod) ==
  IF IsPowerOfTwo(polyMod)
  THEN polyInvRefine_leaves(extendedEuclideanAlgorithm_leaves(polyIn, polyI, 2),
                            extendedEuclideanAlgorithm(polyIn, polyI, 2), polyMod)
  ELSE extendedEuclideanAlgorithm_leaves(polyIn, polyI, polyMod)

\* The methods assign no instance field and write no array element; they
\* hand arrays of the instance and their argument to the library functions.
\* encryptBits: multiplyPolynomials(r, this.h, q), addPolynomials(m, rhq, q),
\* dividePolynomials(rhqm, this.I, q).
encryptBits_leavesSum(self, m, rhq) ==
  [this |-> [self EXCEPT !.I = dividePolynomials_leaves(
                                 addPolynomials(m, rhq, self.q), self.I, self.q).b],
   arg  |-> addPolynomials_leaves(m, rhq, self.q).a]

encryptBits_leaves(self, m, rArr) ==
  IF self.h = Null THEN [this |-> self, arg |-> m]
  ELSE encryptBits_leavesSum(
         [self EXCEPT !.h = multiplyPolynomials_leaves(
                              mapNegOne(rArr, self.p), self.h, self.q).b],
         m, multiplyPolynomials(mapNegOne(rArr, self.p), self.h, self.q))

\* decryptBits: multiplyPolynomials(f, e, q), dividePolynomials(a, this.I, q),
\* multiplyPolynomials(this.fp, aDivP, p), dividePolynomials(c, this.I, p).
decryptBits_leavesSecond(self, e, aDivP) ==
  [this |-> [self EXCEPT
               !.fp = multiplyPolynomials_leaves(self.fp, aDivP, self.p).a,
               !.I = dividePolynomials_leaves(
                       multiplyPolynomials(self.fp, aDivP, self.p),
                       self.I, self.p).b],
   arg  |-> e]

decryptBits_leavesFirst(self, e, aDiv) ==
  IF aDiv.err # "" THEN [this |-> self, arg |-> e]
  ELSE decryptBits_leavesSecond(self, e,
         [k \in 1..Len(aDiv.remainder) |->
            signRemap(aDiv.remainder[k], self.q, self.p)])

decryptBits_leavesProduct(self, f, e, a) ==
  decryptBits_leavesFirst(
    [self EXCEPT !.I = dividePolynomials_leaves(a, self.I, self.q).b],
    multiplyPolynomials_leaves(f, e, self.q).b,
    dividePolynomials(a, self.I, self.q))

decryptBits_leaves(self, e) ==
  IF self.f = Null \/ self.fp = Null THEN [this |-> self, arg |-> e]
  ELSE decryptBits_leavesProduct(self, mapNegOne(self.f, self.q), e,
         multiplyPolynomials(mapNegOne(self.f, self.q), e, self.q))

\* verifyKeysInputs: multiplyPolynomials(fq, fmodq, q),
\* multiplyPolynomials(fp, fmodp, p), multiplyPolynomials(fqp, g, q) with
\* fqp and g made by map, each product divided by this.I.
verifyKeysInputs_leavesH(self) ==
  [self EXCEPT !.I = dividePolynomials_leaves(
                       multiplyPolynomials(
                         [k \in 1..Len(self.fq) |-> self.fq[k] * self.p],
                         mapNegOne(self.g, self.q), self.q),
                       self.I, self.q).b]

verifyKeysInputs_leavesFp(self, fpProduct) ==
  IF remainderRejected(dividePolynomials(fpProduct, self.I, self.p).remainder)
  THEN [self EXCEPT !.I = dividePolynomials_leaves(fpProduct, self.I, self.p).b]
  ELSE verifyKeysInputs_leavesH(
         [self EXCEPT !.I = dividePolynomials_leaves(fpProduct, self.I, self.p).b])

verifyKeysInputs_leavesFq(self, fqProduct) ==
  IF remainderRejected(dividePolynomials(fqProduct, self.I, self.q).remainder)
  THEN [self EXCEPT !.I = dividePolynomials_leaves(fqProduct, self.I, self.q).b]
  ELSE verifyKeysInputs_leavesFp(
         [self EXCEPT
            !.I = dividePolynomials_leaves(fqProduct, self.I, self.q).b,
            !.fp = multiplyPolynomials_leaves(
                     self.fp, mapNegOne(self.f, self.p), self.p).a],
         multiplyPolynomials(self.fp, mapNegOne(self.f, self.p), self.p))

verifyKeysInputs_leaves(self) ==
  IF self.f = Null \/ self.fq = Null \/ self.fp = Null
       \/ self.g = Null \/ self.h = Null
  THEN self
  ELSE verifyKeysInputs_leavesFq(
         [self EXCEPT !.fq = multiplyPolynomials_leaves(
                               self.fq, mapNegOne(self.f, self.q), self.q).a],
         multiplyPolynomials(self.fq, mapNegOne(self.f, self.q), self.q))

(***************************************************************************)
(* Each function called once with the caller's arrays args.a and args.b,   *)
(* each method once on an instance built with a key pair; out keeps the    *)
(* arrays and the instance as they were before the call.                   *)
(***************************************************************************)
FrameCoeffs == {-1, 0, 1}

FrameInputs ==
  {[a |-> a, b |-> b, m |-> m] :
     a \in UNION {[1..l -> FrameCoeffs] : l \in 0..(MaxFrameLen + 1)},
     b \in UNION {[1..l -> FrameCoeffs] : l \in 0..MaxFrameLen},
     m \in Moduli}

\* f = x^(n-1), fq = fp = x, g = x - 1 and h = 3*x*(x - 1) modulo 8
FrameKey(n) ==
  [N |-> n, q |-> 8, df |-> 1, dg |-> 1, dr |-> 1,
   f |-> [k \in 1..n |-> IF k = n THEN 1 ELSE 0],
   fq |-> <<0, 1>>, fp |-> <<0, 1>>,
   g |-> expandArray(<<-1, 1>>, n, 0), h |-> <<0, 5, 3>>]

NoFrame == [op |-> "none", args |-> NoArgs, this |-> Null]

InitFrame ==
  /\ this = constructor(FrameKey(RingN))
  /\ pc = "idle" /\ loop = NoLoop /\ call = NoCall
  /\ args \in FrameInputs
  /\ out = NoFrame /\ enc = NoEnc /\ dec = NoDec
  /\ enc2 = NoEnc /\ other = Null

\* A library function returns or throws, w being the two arrays as it
\* leaves them.
FunctionDone(op, w) ==
  /\ out.op = "none"
  /\ out' = [op |-> op, args |-> args, this |-> this]
  /\ args' = [args EXCEPT !.a = w.a, !.b = w.b]
  /\ UNCHANGED <<this, pc, loop, call, enc, dec, enc2, other>>

\* A method called with args.a returns or throws, w being the instance and
\* the argument as it leaves them.
MethodDone(op, w) ==
  /\ out.op = "none"
  /\ out' = [op |-> op, args |-> args, this |-> this]
  /\ args' = [args EXCEPT !.a = w.arg]
  /\ this' = w.this
  /\ UNCHANGED <<pc, loop, call, enc, dec, enc2, other>>

FrameAdd == FunctionDone("addPolynomials", addPolynomials_leaves(args.a, args.b, args.m))

FrameSubtract ==
  FunctionDone("subtractPolynomials", subtractPolynomials_leaves(args.a, args.b, args.m))

FrameMultiply ==
  FunctionDone("multiplyPolynomials", multiplyPolynomials_leaves(args.a, args.b, args.m))

FrameDivide ==
  FunctionDone("dividePolynomials", dividePolynomials_leaves(args.a, args.b, args.m))

FrameScalar ==
  FunctionDone("multiplyPolynomialsByScalar",
    [multiplyPolynomialsByScalar_leaves(args.a, 2, args.m) EXCEPT !.b = args.b])

FrameEea ==
  FunctionDone("extendedEuclideanAlgorithm",
    extendedEuclideanAlgorithm_leaves(args.a, args.b, args.m))

FramePolyInv == FunctionDone("polyInv", polyInv_leaves(args.a, args.b, args.m))

FrameEncryptBits ==
  \E rArr \in generateCustomArray(this.N, this.dr, this.dr) :
    MethodDone("encryptBits", encryptBits_leaves(this, args.a, rArr))

FrameDecryptBits == MethodDone("decryptBits", decryptBits_leaves(this, args.a))

FrameVerifyKeysInputs ==
  MethodDone("verifyKeysInputs", [this |-> verifyKeysInputs_leaves(this), arg |-> args.a])

NextFrame ==
  \/ FrameAdd
  \/ FrameSubtract
  \/ FrameMultiply
  \/ FrameDivide
  \/ FrameScalar
  \/ FrameEea
  \/ FramePolyInv
  \/ FrameEncryptBits
  \/ FrameDecryptBits
  \/ FrameVerifyKeysInputs

SpecFrame == InitFrame /\ [][NextFrame]_vars

\* C28: addPolynomials, subtractPolynomials, multiplyPolynomials,
\* dividePolynomials, multiplyPolynomialsByScalar, extendedEuclideanAlgorithm
\* and polyInv leave every array passed to them unchanged, and encryptBits,
\* decryptBits and verifyKeysInputs leave their argument arrays and every
\* field of the instance unchanged.
C28_NoSideEffects ==
  out.op # "none" => (args = out.args /\ this = out.this)

\* A division whose loop wrote its dividend twice, the divisor's leading
\* coefficient being -1.
C28_Witness ==
  /\ out.op = "dividePolynomials"
  /\ args.a = <<1, 0, 1>> /\ args.b = <<1, -1>> /\ args.m = 3

(***************************************************************************)
(* multiplyPolynomials on coefficients whose product needs more than the   *)
(* 53 bits of a Number's significand.  A non-negative integer is written   *)
(* as its binary digits, least significant first, without leading zeros.   *)
(* For two arrays of one coefficient n = 1: fft runs no pass of its loops, *)
(* and A[0].re = a[0]*b[0] - 0*0 is one rounded product.                   *)
(***************************************************************************)
MaxExponent == 27

\* Bits of the significand of a Number
SignificandBits == 53

\* 2^k + c, for c < 2^k
BinaryOf(k, c) == [i \in 1..(k + 1) |-> IF i = k + 1 THEN 1 ELSE (c \div 2^(i - 1)) % 2]

RECURSIVE smallBits(_)
smallBits(n) == IF n = 0 THEN <<>> ELSE <<n % 2>> \o smallBits(n \div 2)

\* The digits of column k of the long multiplication of x by y, summed
columnSum(x, y, k) ==
  SumSeq([i \in 1..Len(x) |->
    IF k - (i - 1) >= 0 /\ k - (i - 1) < Len(y)
    THEN x[i] * y[k - (i - 1) + 1] ELSE 0])

RECURSIVE carryBits(_, _, _, _)
RECURSIVE carryColumn(_, _, _, _)

carryBits(x, y, k, carry) ==
  IF k > Len(x) + Len(y) - 2 THEN smallBits(carry)
  ELSE carryColumn(x, y, k, columnSum(x, y, k) + carry)

\* The digit of column k and the carry into column k + 1
carryColumn(x, y, k, sum) ==
  <<sum % 2>> \o carryBits(x, y, k + 1, sum \div 2)

\* The integer x*y, exactly
exactProduct(x, y) == carryBits(x, y, 0, 0)

RECURSIVE increment(_)
increment(bits) ==
  IF bits = <<>> THEN <<1>>
  ELSE IF Head(bits) = 0 THEN <<1>> \o Tail(bits)
  ELSE <<0>> \o increment(Tail(bits))

\* Rounding of an integer to the nearest Number, ties to even: dropped is
\* the number of digits that do not fit the significand.
roundDropped(bits, dropped) ==
  [i \in 1..dropped |-> 0] \o
    (IF bits[dropped] = 1 /\ (bits[dropped + 1] = 1
                              \/ \E i \in 1..(dropped - 1) : bits[i] = 1)
     THEN increment(SubSeq(bits, dropped + 1, Len(bits)))
     ELSE SubSeq(bits, dropped + 1, Len(bits)))

roundToDouble(bits) ==
  IF Len(bits) <= SignificandBits THEN bits
  ELSE roundDropped(bits, Len(bits) - SignificandBits)

\* x % p for a Number x that is a non-negative integer
RECURSIVE remainderOfBits(_, _, _, _)
remainderOfBits(bits, k, r, p) ==
  IF k = 0 THEN r ELSE remainderOfBits(bits, k - 1, (2 * r + bits[k]) % p, p)

\* multiplyPolynomials([x], [y], p): result[0] =
\* ((Math.round(A[0].re)) % p + p) % p, then trimPolynomial(result)
reducedRound(re, p) == (remainderOfBits(re, Len(re), 0, p) + p) % p

multiplyPolynomialsOfNumbers(x, y, p) ==
  trimPolynomial(<<reducedRound(roundToDouble(exactProduct(x, y)), p)>>)

LargeCoefficients == {BinaryOf(k, c) : k \in 2..MaxExponent, c \in {1, 3}}

InitNumbers ==
  /\ this = constructor([N |-> RingN])
  /\ pc = "idle" /\ loop = NoLoop /\ call = NoCall
  /\ args \in {[a |-> x, b |-> y, m |-> m] :
                 x \in LargeCoefficients, y \in LargeCoefficients, m \in Moduli}
  /\ out = NoOut /\ enc = NoEnc /\ dec = NoDec
  /\ enc2 = NoEnc /\ other = Null

CallMultiplyNumbers ==
  /\ out.op = "none"
  /\ out' = Returned("multiplyPolynomials",
                     multiplyPolynomialsOfNumbers(args.a, args.b, args.m))
  /\ UNCHANGED <<this, pc, loop, call, args, enc, dec, enc2, other>>

NextNumbers == CallMultiplyNumbers

SpecNumbers == InitNumbers /\ [][NextNumbers]_vars

\* The remainder modulo m of the integer with these binary digits
ResidueOf(bits, m) == remainderOfBits(bits, Len(bits), 0, m)

\* C29: for all integer coefficient vectors a and b and every modulus m,
\* multiplyPolynomials(a, b, m) is the canonical form of the exact integer
\* convolution with each coefficient reduced into [0, m): the floating-point
\* transform never changes a result coefficient.  Here a and b hold one
\* coefficient each, and the convolution is their product.
C29_ExactMultiplication ==
  out.op = "multiplyPolynomials" =>
    out.value = <<(ResidueOf(args.a, args.m) * ResidueOf(args.b, args.m)) % args.m>>

(***************************************************************************)
(* The format helpers bigintToBits and bitsToBigInt, each applied to what  *)
(* the other returned.                                                     *)
(***************************************************************************)
MaxBigInt == 63
MaxBitsLen == 4

\* while (bigint > 0n) { bits.push(Number(bigint & 1n)); bigint >>= 1n }
RECURSIVE bigintToBits(_)
bigintToBits(bigint) ==
  IF bigint > 0 THEN <<bigint % 2>> \o bigintToBits(bigint \div 2) ELSE <<>>

\* BigInt(`0b${bits.join('')}`): the first element is the most significant
\* digit; the literal '0b' without a digit is a SyntaxError.
bitsToBigInt(bits) ==
  IF Len(bits) = 0 THEN [err |-> "SyntaxError", value |-> 0]
  ELSE [err |-> "",
        value |-> SumSeq([k \in 1..Len(bits) |-> bits[k] * 2^(Len(bits) - k)])]

InitBits ==
  /\ this = constructor([N |-> RingN])
  /\ pc = "idle" /\ loop = NoLoop /\ call = NoCall
  /\ args \in {[x |-> x, bits |-> b] :
                 x \in 0..MaxBigInt,
                 b \in UNION {[1..l -> {0, 1}] : l \in 0..MaxBitsLen}}
  /\ out = NoOut /\ enc = NoEnc /\ dec = NoDec
  /\ enc2 = NoEnc /\ other = Null

\* bitsToBigInt(bigintToBits(x))
CallBitsToBigIntOfBits ==
  /\ out.op = "none"
  /\ out' = [op |-> "bitsToBigInt"] @@ bitsToBigInt(bigintToBits(args.x))
  /\ UNCHANGED <<this, pc, loop, call, args, enc, dec, enc2, other>>

\* What bigintToBits returns for r, the outcome of bitsToBigInt
bigintToBitsOf(r) ==
  IF r.err # "" THEN [err |-> r.err, value |-> <<>>]
  ELSE [err |-> "", value |-> bigintToBits(r.value)]

\* bigintToBits(bitsToBigInt(b))
CallBigintToBitsOfBigInt ==
  /\ out.op = "none"
  /\ out' = [op |-> "bigintToBits"] @@ bigintToBitsOf(bitsToBigInt(args.bits))
  /\ UNCHANGED <<this, pc, loop, call, args, enc, dec, enc2, other>>

NextBits == CallBitsToBigIntOfBits \/ CallBigintToBitsOfBigInt

SpecBits == InitBits /\ [][NextBits]_vars

\* A bit vector that neither starts nor ends with a zero
Unambiguous(bits) == Len(bits) > 0 /\ bits[1] = 1 /\ bits[Len(bits)] = 1

\* C30: bitsToBigInt(bigintToBits(x)) = x for every BigInt x >= 0, x = 0
\* included, and bigintToBits(bitsToBigInt(b)) = b for every bit vector b
\* without leading-zero ambiguity.
C30_BitHelpersInverse ==
  /\ out.op = "bitsToBigInt" => (out.err = "" /\ out.value = args.x)
  /\ (out.op = "bigintToBits" /\ Unambiguous(args.bits)) =>
       (out.err = "" /\ out.value = args.bits)

====
